---- MODULE Spec2Model ----
(***************************************************************************)
(* Model of the quadlet_app Ansible module                                 *)
(* (plugins/modules/quadlet_app.py, plugins/action/quadlet_app.py).        *)
(*                                                                         *)
(* Text is modelled as TLA+ strings, character by character: Len, \o and   *)
(* SubSeq are the only primitives used on them.  One invocation of the     *)
(* module is a record run[p]; the destination filesystem (disk) and the    *)
(* state of the main service (svcActive) are shared by all invocations.    *)
(***************************************************************************)
EXTENDS Integers, Sequences, FiniteSets, TLC

VARIABLES run, disk, svcActive, flips

vars == <<run, disk, svcActive, flips>>

(***************************************************************************)
(* Bounds of the model.                                                    *)
(***************************************************************************)
\* longest raw application name drawn in the name-validation specification
MaxNameLen == 3
\* longest name / unit-file stem drawn in the namespace specification
MaxPartLen == 4
\* invocations made one after the other by one caller
MaxRuns == 2
\* changes of the main service's state made by somebody else
MaxFlips == 1
\* structural lines put before the payload line of a unit file
MaxStructLines == 2

(***************************************************************************)
(* Python str primitives.                                                  *)
(***************************************************************************)
Ch(s, i) == SubSeq(s, i, i)

LowerLetters == "abcdefghijklmnopqrstuvwxyz"
UpperLetters == "ABCDEFGHIJKLMNOPQRSTUVWXYZ"
Digits == "0123456789"

InStr(c, s) == \E i \in 1..Len(s) : Ch(s, i) = c

\* str.lower() on one character
LowerChar(c) ==
    IF InStr(c, UpperLetters)
    THEN Ch(LowerLetters, CHOOSE i \in 1..Len(UpperLetters) : Ch(UpperLetters, i) = c)
    ELSE c

\* the concatenation of pieces[lo..hi]
RECURSIVE Flat(_, _, _)
Flat(pieces, lo, hi) ==
    IF lo > hi THEN ""
    ELSE IF lo = hi THEN pieces[lo]
    ELSE Flat(pieces, lo, (lo + hi) \div 2) \o Flat(pieces, (lo + hi) \div 2 + 1, hi)

\* str.lower()
Lower(s) == Flat([i \in 1..Len(s) |-> LowerChar(Ch(s, i))], 1, Len(s))

StartsWith(s, pre) == Len(s) >= Len(pre) /\ SubSeq(s, 1, Len(pre)) = pre
EndsWith(s, suf) == Len(s) >= Len(suf) /\ SubSeq(s, Len(s) - Len(suf) + 1, Len(s)) = suf

\* the characters str.strip() removes (those that can occur in the model)
IsSpace(c) == c \in {" ", "\t", "\r", "\n", "\f"}

\* str.lstrip()
LStrip(s) ==
    LET ns == {i \in 1..Len(s) : ~IsSpace(Ch(s, i))}
    IN  IF ns = {} THEN "" ELSE SubSeq(s, CHOOSE i \in ns : \A j \in ns : i <= j, Len(s))

\* str.rstrip()
RStrip(s) ==
    LET ns == {i \in 1..Len(s) : ~IsSpace(Ch(s, i))}
    IN  IF ns = {} THEN "" ELSE SubSeq(s, 1, CHOOSE i \in ns : \A j \in ns : i >= j)

Strip(s) == RStrip(LStrip(s))

\* str.find(c): first index of character c, 0 when absent (1-based)
Find(s, c) == IF InStr(c, s) THEN CHOOSE i \in 1..Len(s) : Ch(s, i) = c /\ \A j \in 1..(i - 1) : Ch(s, j) # c
              ELSE 0

\* str.rfind(c): last index of character c, 0 when absent (1-based)
RFind(s, c) == IF InStr(c, s) THEN CHOOSE i \in 1..Len(s) : Ch(s, i) = c /\ \A j \in (i + 1)..Len(s) : Ch(s, j) # c
               ELSE 0

\* str.split(c): the pieces between the occurrences of character c
RECURSIVE Split(_, _)
Split(s, c) ==
    LET i == Find(s, c)
    IN  IF i = 0 THEN <<s>> ELSE <<SubSeq(s, 1, i - 1)>> \o Split(SubSeq(s, i + 1, Len(s)), c)

\* c.join(parts)
RECURSIVE Join(_, _)
Join(parts, c) ==
    IF Len(parts) = 0 THEN ""
    ELSE IF Len(parts) = 1 THEN parts[1]
    ELSE parts[1] \o c \o Join(Tail(parts), c)

\* pathlib: PurePath(name).suffix and .stem for a single path component
PathSuffix(name) ==
    LET i == RFind(name, ".")
    IN  IF 1 < i /\ i < Len(name) THEN SubSeq(name, i, Len(name)) ELSE ""

PathStem(name) ==
    LET i == RFind(name, ".")
    IN  IF 1 < i /\ i < Len(name) THEN SubSeq(name, 1, i - 1) ELSE name

(***************************************************************************)
(* Deployment roots.                                                       *)
(***************************************************************************)
QUADLET_SYSTEMD_DIR == "/etc/containers/systemd"
QUADLET_APP_BASE_DIR == "/srv"

(***************************************************************************)
(* QuadletValidator.validate_app_name and the same check inlined in        *)
(* QuadletAppModule.run for content templated on the control node.         *)
(***************************************************************************)
IsLowerLetter(c) == InStr(c, LowerLetters)
IsNameTailChar(c) == InStr(c, LowerLetters) \/ InStr(c, Digits)
IsNameChar(c) == IsNameTailChar(c) \/ c = "_" \/ c = "-"

\* the text between ^ and $ of APP_NAME_PATTERN_SINGLE
FullMatchSingle(s) == Len(s) = 1 /\ IsLowerLetter(s)

\* the text between ^ and $ of APP_NAME_PATTERN_MULTI
FullMatchMulti(s) ==
    /\ Len(s) >= 2
    /\ IsLowerLetter(Ch(s, 1))
    /\ IsNameTailChar(Ch(s, Len(s)))
    /\ \A i \in 1..Len(s) : IsNameChar(Ch(s, i))

\* Python's $ (no re.MULTILINE): at the end of the string, or just before a
\* newline that is the last character of the string
DollarEnds(s) == {s} \cup (IF s # "" /\ Ch(s, Len(s)) = "\n" THEN {SubSeq(s, 1, Len(s) - 1)} ELSE {})

\* re.match(APP_NAME_PATTERN_SINGLE, s)
MatchSingle(s) == \E t \in DollarEnds(s) : FullMatchSingle(t)

\* re.match(APP_NAME_PATTERN_MULTI, s)
MatchMulti(s) == \E t \in DollarEnds(s) : FullMatchMulti(t)

\* the test of validate_app_name on the lowercased name
AppNameOk(name) == IF Len(name) = 1 THEN MatchSingle(name) ELSE MatchMulti(name)

NameError == "Invalid application name"

(***************************************************************************)
(* QuadletPreprocessor.                                                    *)
(***************************************************************************)
RULE1_EXTENSIONS == {".container", ".pod", ".kube"}
RULE2_EXTENSIONS == {".container", ".pod"}

\* RESOURCE_NAME_DIRECTIVES: extension -> (section name, directive name)
RESOURCE_NAME_DIRECTIVES ==
    [e \in {".container", ".pod", ".volume", ".network"} |->
        CASE e = ".container" -> <<"Container", "ContainerName">>
          [] e = ".pod"       -> <<"Pod", "PodName">>
          [] e = ".volume"    -> <<"Volume", "VolumeName">>
          [] e = ".network"   -> <<"Network", "NetworkName">>]

RESOURCE_DIRECTIVES ==
    {"Network", "Pod", "Volume", "Wants", "Requires", "Requisite", "BindsTo",
     "PartOf", "Upholds", "Conflicts", "Before", "After"}

\* a line whose stripped text starts with "[" and ends with "]"
IsSectionHeader(line) == StartsWith(Strip(line), "[") /\ EndsWith(Strip(line), "]")

\* stripped[1:-1]
SectionOf(line) == SubSeq(Strip(line), 2, Len(Strip(line)) - 1)

\* the lines the section parser keeps: current_lines is only saved once a
\* header has been seen, so what precedes the first header is not kept
KeptLines(lines) ==
    LET hs == {i \in 1..Len(lines) : IsSectionHeader(lines[i])}
    IN  IF hs = {} THEN <<>>
        ELSE SubSeq(lines, CHOOSE i \in hs : \A j \in hs : i <= j, Len(lines))

\* index (in the kept lines) of the header of the first section called name, 0 if none
TargetHeader(kept, name) ==
    LET ts == {i \in 1..Len(kept) : IsSectionHeader(kept[i]) /\ SectionOf(kept[i]) = name}
    IN  IF ts = {} THEN 0 ELSE CHOOSE i \in ts : \A j \in ts : i <= j

\* index of the last line of the section whose header is at index t
SectionEnd(kept, t) ==
    LET nx == {i \in (t + 1)..Len(kept) : IsSectionHeader(kept[i])}
    IN  IF nx = {} THEN Len(kept) ELSE (CHOOSE i \in nx : \A j \in nx : i <= j) - 1

\* has_directive: a non-blank, non-comment line of the section starts with "<directive>="
HasDirective(kept, t, directive) ==
    \E i \in t..SectionEnd(kept, t) :
        /\ Strip(kept[i]) # ""
        /\ ~StartsWith(Strip(kept[i]), "#")
        /\ StartsWith(Strip(kept[i]), directive \o "=")

\* _apply_rule3_inject_names
ApplyRule3InjectNames(app_name, content, filename) ==
    LET ext == PathSuffix(filename)
    IN  IF ext \notin DOMAIN RESOURCE_NAME_DIRECTIVES THEN content
        ELSE LET section_name   == RESOURCE_NAME_DIRECTIVES[ext][1]
                 directive_name == RESOURCE_NAME_DIRECTIVES[ext][2]
                 name_value     == app_name \o "--" \o PathStem(filename)
                 kept           == KeptLines(Split(content, "\n"))
                 t              == TargetHeader(kept, section_name)
             IN  IF t = 0 \/ HasDirective(kept, t, directive_name)
                 THEN Join(kept, "\n")
                 ELSE Join(SubSeq(kept, 1, t) \o <<directive_name \o "=" \o name_value>>
                           \o SubSeq(kept, t + 1, Len(kept)), "\n")

\* re.match(r"^([^/][^:]*\.(volume|network|pod))(:.+)?$", value): <<group 1, group 3>>,
\* or <<>> when the value does not match
VolumeMatch(value) ==
    LET tail == SubSeq(value, 2, Len(value))
        k    == Find(tail, ":")
        g1   == IF k = 0 THEN value ELSE SubSeq(value, 1, k)
        rest == IF k = 0 THEN "" ELSE SubSeq(tail, k, Len(tail))
    IN  IF /\ value # ""
           /\ Ch(value, 1) # "/"
           /\ \E suf \in {".volume", ".network", ".pod"} :
                  EndsWith(g1, suf) /\ Len(g1) >= Len(suf) + 1
           /\ (rest = "" \/ Len(rest) >= 2)
        THEN <<g1, rest>>
        ELSE <<>>

QuadletExtensions == {".network", ".pod", ".volume", ".container", ".kube", ".service"}

\* a Rule 1 that prefixes absolute references too
ApplyRule1PrefixAbsolute(app_name, line) ==
    LET line_stripped == LStrip(line)
        eq            == Find(line_stripped, "=")
        directive     == SubSeq(line_stripped, 1, eq - 1)
        value         == SubSeq(line_stripped, eq + 1, Len(line_stripped))
        leading_ws    == SubSeq(line, 1, Len(line) - Len(line_stripped))
    IN  IF line_stripped = "" \/ eq = 0 \/ directive \notin RESOURCE_DIRECTIVES THEN line
        ELSE IF \E e \in QuadletExtensions : EndsWith(value, e)
             THEN leading_ws \o directive \o "=" \o app_name \o "--" \o value
             ELSE line

\* _apply_rule1_prefix_resources
ApplyRule1PrefixResources(app_name, line) ==
    LET line_stripped == LStrip(line)
        eq            == Find(line_stripped, "=")
        directive     == SubSeq(line_stripped, 1, eq - 1)
        value         == SubSeq(line_stripped, eq + 1, Len(line_stripped))
        leading_ws    == SubSeq(line, 1, Len(line) - Len(line_stripped))
    IN  IF line_stripped = "" \/ eq = 0 \/ directive \notin RESOURCE_DIRECTIVES THEN line
        ELSE IF directive = "Volume"
             THEN IF VolumeMatch(value) # <<>>
                  THEN leading_ws \o directive \o "=" \o app_name \o "--"
                           \o VolumeMatch(value)[1] \o VolumeMatch(value)[2]
                  ELSE line
             ELSE IF (\E e \in QuadletExtensions : EndsWith(value, e)) /\ ~StartsWith(value, "/")
                  THEN leading_ws \o directive \o "=" \o app_name \o "--" \o value
                  ELSE line

\* a replacement that always appends the subpath
RedirectedSourceAlwaysSlash(app_name, container_name, kind, subpath0) ==
    QUADLET_APP_BASE_DIR \o "/" \o app_name \o "/" \o kind \o "/" \o container_name
        \o "/" \o subpath0

\* the replacement of an init.d / config.d source (kind is "init" or "config")
RedirectedSource(app_name, container_name, kind, subpath0) ==
    LET subpath == IF StartsWith(subpath0, "/") THEN SubSeq(subpath0, 2, Len(subpath0)) ELSE subpath0
        base    == QUADLET_APP_BASE_DIR \o "/" \o app_name \o "/" \o kind \o "/" \o container_name
    IN  IF subpath # "" THEN base \o "/" \o subpath ELSE base

\* Rule 2 as it would be if a Volume line that is not redirected were
\* returned without its leading whitespace
ApplyRule2DropsIndent(app_name, line, container_name) ==
    LET line_stripped == LStrip(line)
        leading_ws    == SubSeq(line, 1, Len(line) - Len(line_stripped))
        value         == SubSeq(line_stripped, 8, Len(line_stripped))
        colon         == Find(value, ":")
        source        == IF colon = 0 THEN value ELSE SubSeq(value, 1, colon - 1)
        rest          == IF colon = 0 THEN "" ELSE SubSeq(value, colon, Len(value))
    IN  IF ~StartsWith(line_stripped, "Volume=") THEN line
        ELSE IF EndsWith(source, ".volume") \/ StartsWith(source, "/") THEN line_stripped
        ELSE IF StartsWith(source, "init.d")
             THEN leading_ws \o "Volume="
                  \o RedirectedSource(app_name, container_name, "init", SubSeq(source, 7, Len(source)))
                  \o rest
        ELSE IF StartsWith(source, "config.d")
             THEN leading_ws \o "Volume="
                  \o RedirectedSource(app_name, container_name, "config", SubSeq(source, 9, Len(source)))
                  \o rest
        ELSE line_stripped

\* _apply_rule2_replace_paths
ApplyRule2ReplacePaths(app_name, line, container_name) ==
    LET line_stripped == LStrip(line)
        leading_ws    == SubSeq(line, 1, Len(line) - Len(line_stripped))
        value         == SubSeq(line_stripped, 8, Len(line_stripped))
        colon         == Find(value, ":")
        source        == IF colon = 0 THEN value ELSE SubSeq(value, 1, colon - 1)
        rest          == IF colon = 0 THEN "" ELSE SubSeq(value, colon, Len(value))
    IN  IF ~StartsWith(line_stripped, "Volume=") THEN line
        ELSE IF EndsWith(source, ".volume") THEN line
        ELSE IF StartsWith(source, "/") THEN line
        ELSE IF StartsWith(source, "init.d")
             THEN leading_ws \o "Volume="
                  \o RedirectedSource(app_name, container_name, "init", SubSeq(source, 7, Len(source)))
                  \o rest
        ELSE IF StartsWith(source, "config.d")
             THEN leading_ws \o "Volume="
                  \o RedirectedSource(app_name, container_name, "config", SubSeq(source, 9, Len(source)))
                  \o rest
        ELSE line

\* the body of the line loop of preprocess_quadlet_file
PreprocessLine(app_name, line, filename) ==
    IF Strip(line) = "" \/ StartsWith(Strip(line), "#") THEN line
    ELSE LET l1 == IF PathSuffix(filename) \in RULE1_EXTENSIONS
                   THEN ApplyRule1PrefixResources(app_name, line) ELSE line
         IN  IF PathSuffix(filename) \in RULE2_EXTENSIONS
             THEN ApplyRule2ReplacePaths(app_name, l1, PathStem(filename)) ELSE l1

\* preprocess_quadlet_file
PreprocessQuadletFile(app_name, content, filename) ==
    LET lines == Split(ApplyRule3InjectNames(app_name, content, filename), "\n")
    IN  Join([i \in 1..Len(lines) |-> PreprocessLine(app_name, lines[i], filename)], "\n")

\* concrete cases of the preprocessor, evaluated when the model is loaded
PreprocessExamples ==
    /\ PreprocessQuadletFile("shop", "# v1\n[Container]\nImage=x", "main.container")
         = "[Container]\nContainerName=shop--main\nImage=x"
    /\ PreprocessQuadletFile("shop", "Image=x", "main.container") = ""
    /\ PreprocessQuadletFile("shop", "# v1\n[Container]\nImage=x", "main.kube")
         = "# v1\n[Container]\nImage=x"
    /\ PreprocessQuadletFile("shop", "x\n[Container]\r\nImage=i\r\n", "main.container")
         = "[Container]\r\nContainerName=shop--main\nImage=i\r\n"
    /\ PreprocessQuadletFile("shop", "[Container]\nNetwork=main.network\nVolume=data.volume:/data\nAfter=/etc/foo.service", "backend.container")
         = "[Container]\nContainerName=shop--backend\nNetwork=shop--main.network\nVolume=shop--data.volume:/data\nAfter=/etc/foo.service"
    /\ PreprocessQuadletFile("shop", "[Container]\nVolume=init.d/secrets:/run/secrets\nVolume=config.d", "main.container")
         = "[Container]\nContainerName=shop--main\nVolume=/srv/shop/init/main/secrets:/run/secrets\nVolume=/srv/shop/config/main"
    /\ PreprocessQuadletFile("shop", "[Volume]\nVolumeName=z\nVolume=a.volume:", "main.volume")
         = "[Volume]\nVolumeName=z\nVolume=a.volume:"

(***************************************************************************)
(* Source tree of an application.  A tree is a record                      *)
(*   srcKind      "dir", "file" or "missing": what the src path is         *)
(*   hasQuadlets  whether src/quadlets is a directory                      *)
(*   quadlets     entries of quadlets/, sorted by name:                    *)
(*                [name, isFile, content]                                  *)
(*   initDirs     names of the subdirectories of init.d/                   *)
(*   init         files below them, in walk order: [container, path,      *)
(*                content]                                                 *)
(*   configDirs, config   the same for config.d/                           *)
(* content is the file's bytes (local mode) or its rendered text (content  *)
(* templated on the control node).                                         *)
(***************************************************************************)
VALID_QUADLET_EXTENSIONS == {".container", ".volume", ".network", ".pod", ".kube"}
VALID_SUBDIR_SUFFIXES == {".container", ".pod"}

\* open(path, "r", encoding="utf-8").read(): universal newlines turn "\r\n"
\* and a lone "\r" into "\n"
\* (a "\r" reads as "\n", and the "\n" that follows a "\r" is swallowed)
ReadText(bytes) ==
    Flat([i \in 1..Len(bytes) |->
            IF Ch(bytes, i) = "\r" THEN "\n"
            ELSE IF Ch(bytes, i) = "\n" /\ i > 1 /\ Ch(bytes, i - 1) = "\r" THEN ""
            ELSE Ch(bytes, i)], 1, Len(bytes))

\* open(path, "w", encoding="utf-8").write(content) on a POSIX host: "\n" is
\* written as os.linesep, which is "\n"; every other character is written as it is
OsLinesep == "\n"

WriteText(content) ==
    Flat([i \in 1..Len(content) |->
            IF Ch(content, i) = "\n" THEN OsLinesep ELSE Ch(content, i)], 1, Len(content))

\* os.path.join(a, b) for a directory a that does not end with "/"
OsPathJoin(a, b) == IF StartsWith(b, "/") THEN b ELSE a \o "/" \o b

\* os.path.dirname(path)
OsPathDirname(path) ==
    LET i == RFind(path, "/")
    IN  IF i = 0 THEN "" ELSE IF i = 1 THEN "/" ELSE SubSeq(path, 1, i - 1)

\* validate_source_directory: "" when it passes, else the error
ValidateSourceDirectory(tree) ==
    IF tree.srcKind = "missing" THEN "Source directory not found"
    ELSE IF tree.srcKind # "dir" THEN "Source path is not a directory"
    ELSE IF ~tree.hasQuadlets THEN "Required directory not found"
    ELSE ""

\* validate_app_name
ValidateAppName(app_name) == IF AppNameOk(app_name) THEN "" ELSE NameError

\* validate_main_container
ValidateMainContainer(tree) ==
    IF \E i \in 1..Len(tree.quadlets) :
           tree.quadlets[i].name = "main.container" /\ tree.quadlets[i].isFile
    THEN "" ELSE "Required file not found"

\* the quadlets/ entries matching subdirectory entry
MatchingQuadlets(tree, entry) ==
    {tree.quadlets[i].name : i \in
        {j \in 1..Len(tree.quadlets) :
            /\ PathStem(tree.quadlets[j].name) = entry
            /\ PathSuffix(tree.quadlets[j].name) \in VALID_SUBDIR_SUFFIXES}}

\* a validation that takes any match for a good one
SubdirErrorAnyMatch(tree, entry) ==
    IF PathSuffix(entry) \in VALID_SUBDIR_SUFFIXES THEN "Invalid subdirectory"
    ELSE IF MatchingQuadlets(tree, entry) = {} THEN "No corresponding quadlet file"
    ELSE ""

\* the verdict of validate_init_config_structure on one subdirectory
SubdirError(tree, entry) ==
    IF PathSuffix(entry) \in VALID_SUBDIR_SUFFIXES THEN "Invalid subdirectory"
    ELSE IF MatchingQuadlets(tree, entry) = {} THEN "No corresponding quadlet file"
    ELSE IF Cardinality(MatchingQuadlets(tree, entry)) > 1 THEN "Ambiguous subdirectory"
    ELSE ""

\* ', '.join(sorted(matching)): the matches are among <entry>.container and
\* <entry>.pod, in that order
SortedMatching(tree, entry) ==
    LET m == MatchingQuadlets(tree, entry)
    IN  Join(SelectSeq(<<entry \o ".container", entry \o ".pod">>, LAMBDA f : f \in m), ", ")

\* the ValidationError text for one subdirectory of dir_name, "" when it passes
SubdirMessage(tree, dir_name, entry) ==
    LET kind == SubdirError(tree, entry)
    IN  CASE kind = "Invalid subdirectory" ->
                "Invalid " \o dir_name \o " subdirectory: " \o entry
                \o ". Use the quadlet stem without suffix (e.g., " \o PathStem(entry)
                \o "/ instead of " \o entry \o "/)"
          [] kind = "No corresponding quadlet file" ->
                "No corresponding quadlet file for " \o dir_name \o "/" \o entry
                \o ". Expected a file like quadlets/" \o entry \o ".container or quadlets/"
                \o entry \o ".pod"
          [] kind = "Ambiguous subdirectory" ->
                "Ambiguous " \o dir_name \o " subdirectory: " \o entry
                \o ". Multiple matching quadlet files found: " \o SortedMatching(tree, entry)
                \o ". Remove one of the conflicting quadlet files"
          [] OTHER -> ""

\* validate_init_config_structure: init.d is walked before config.d, and the
\* entries of one directory in the order os.listdir gives them, which is any
\* order; the first subdirectory that fails raises.  The set of the errors
\* that can be raised, {""} when the structure passes.
ValidateInitConfigStructure(tree) ==
    LET badInit   == {e \in tree.initDirs : SubdirError(tree, e) # ""}
        badConfig == {e \in tree.configDirs : SubdirError(tree, e) # ""}
    IN  IF badInit # {} THEN {SubdirMessage(tree, "init.d", e) : e \in badInit}
        ELSE IF badConfig # {} THEN {SubdirMessage(tree, "config.d", e) : e \in badConfig}
        ELSE {""}

\* validate_all: the first failing check decides; the set of possible errors
ValidateAll(tree, app_name) ==
    IF ValidateSourceDirectory(tree) # "" THEN {ValidateSourceDirectory(tree)}
    ELSE IF ValidateAppName(app_name) # "" THEN {ValidateAppName(app_name)}
    ELSE IF ValidateMainContainer(tree) # "" THEN {ValidateMainContainer(tree)}
    ELSE ValidateInitConfigStructure(tree)

\* filename.endswith(valid_extensions)
HasQuadletExtension(name) == \E e \in VALID_QUADLET_EXTENSIONS : EndsWith(name, e)

\* _discover_quadlet_files / ActionModule._process_quadlet_files: indexes kept
DiscoveredQuadlets(tree) ==
    IF ~tree.hasQuadlets THEN <<>>
    ELSE SelectSeq(tree.quadlets, LAMBDA e : HasQuadletExtension(e.name) /\ e.isFile)

\* the text of a source file as the module sees it: read in text mode in local
\* mode (_read_file), handed over as rendered text by the action plugin otherwise
SourceText(content, cnp) == IF cnp THEN content ELSE ReadText(content)

\* dict assignment processed[k] = v on an insertion-ordered dict, kept as a
\* sequence of [dest, content] with distinct dest
DictSet(d, k, v) ==
    IF \E i \in 1..Len(d) : d[i].dest = k
    THEN [i \in 1..Len(d) |-> IF d[i].dest = k THEN [dest |-> k, content |-> v] ELSE d[i]]
    ELSE Append(d, [dest |-> k, content |-> v])

\* destination of a unit file
QuadletDest(app_name, filename) == OsPathJoin(QUADLET_SYSTEMD_DIR, app_name \o "--" \o filename)

\* destination of a file of init.d/<container_dir>/ or config.d/<container_dir>/
AuxDest(app_name, kind, container_dir, rel_path) ==
    OsPathJoin(OsPathJoin(OsPathJoin(QUADLET_APP_BASE_DIR \o "/" \o app_name, kind),
                          PathStem(container_dir)), rel_path)

RECURSIVE PutQuadlets(_, _, _, _)
PutQuadlets(d, app_name, files, cnp) ==
    IF files = <<>> THEN d
    ELSE PutQuadlets(DictSet(d, QuadletDest(app_name, files[1].name),
                             PreprocessQuadletFile(app_name, SourceText(files[1].content, cnp),
                                                   files[1].name)),
                     app_name, Tail(files), cnp)

RECURSIVE PutAux(_, _, _, _, _)
PutAux(d, app_name, kind, files, cnp) ==
    IF files = <<>> THEN d
    ELSE PutAux(DictSet(d, AuxDest(app_name, kind, files[1].container, files[1].path),
                        SourceText(files[1].content, cnp)),
                app_name, kind, Tail(files), cnp)

\* _process_files / _process_files_from_action_plugin: destination -> content
ProcessFiles(app_name, tree, cnp) ==
    PutAux(PutAux(PutQuadlets(<<>>, app_name, DiscoveredQuadlets(tree), cnp),
                  app_name, "init", tree.init, cnp),
           app_name, "config", tree.config, cnp)

(***************************************************************************)
(* The destination filesystem: disk maps a path to [kind, bytes, readable] *)
(* with kind "file" or "dir"; a path outside DOMAIN disk does not exist.   *)
(***************************************************************************)
Exists(d, path) == path \in DOMAIN d
IsFile(d, path) == path \in DOMAIN d /\ d[path].kind = "file"

\* hashlib.sha256(content.encode("utf-8")).hexdigest(): distinct texts have
\* distinct digests
CalculateChecksum(content) == <<"sha256", content>>

\* whether _file_changed opens the destination
FileIsRead(d, dest_path) == Exists(d, dest_path) /\ IsFile(d, dest_path)

\* _file_changed
FileChanged(d, dest_path, new_content) ==
    IF ~Exists(d, dest_path) THEN TRUE
    ELSE IF ~IsFile(d, dest_path) THEN TRUE
    ELSE IF ~d[dest_path].readable THEN TRUE
    ELSE CalculateChecksum(ReadText(d[dest_path].bytes)) # CalculateChecksum(new_content)

\* index of the first changed file of the plan, 0 when there is none
FirstChanged(d, plan) ==
    LET cs == {i \in 1..Len(plan) : FileChanged(d, plan[i].dest, plan[i].content)}
    IN  IF cs = {} THEN 0 ELSE CHOOSE i \in cs : \A j \in cs : i <= j

\* needs_deployment as it would be without the force short-circuit
NeedsDeploymentNoForce(d, plan, force) == FirstChanged(d, plan) # 0

\* needs_deployment
NeedsDeployment(d, plan, force) == IF force THEN TRUE ELSE FirstChanged(d, plan) # 0

\* the destinations needs_deployment opens, in order: none under force, else
\* those of the loop up to its return
DeploymentReads(d, plan, force) ==
    IF force THEN <<>>
    ELSE LET last == IF FirstChanged(d, plan) = 0 THEN Len(plan) ELSE FirstChanged(d, plan)
             idx  == SelectSeq([i \in 1..last |-> i], LAMBDA i : FileIsRead(d, plan[i].dest))
         IN  [k \in 1..Len(idx) |-> <<"read", plan[idx[k]].dest>>]

\* the proper ancestors of path, "/" excluded
Ancestors(path) ==
    {SubSeq(path, 1, i - 1) : i \in {j \in 2..Len(path) : Ch(path, j) = "/"}}

\* os.makedirs(dest_dir, exist_ok=True) succeeds unless a component is a file
MakedirsOk(d, dest_dir) == \A a \in Ancestors(dest_dir \o "/") : ~IsFile(d, a)

\* the filesystem after os.makedirs(dest_dir)
AfterMakedirs(d, dest_dir) ==
    LET new == Ancestors(dest_dir \o "/") \ DOMAIN d
    IN  [q \in DOMAIN d \cup new |->
            IF q \in new THEN [kind |-> "dir", bytes |-> "", readable |-> TRUE] ELSE d[q]]

\* open(dest_path, "w") succeeds unless the destination is a directory
WriteOk(d, dest_path) == ~(Exists(d, dest_path) /\ d[dest_path].kind = "dir")

\* AfterWrite as it would be if an existing destination were kept
AfterWriteCreateOnly(d, dest_path, content) ==
    [q \in DOMAIN d \cup {dest_path} |->
        IF q = dest_path /\ q \notin DOMAIN d
        THEN [kind |-> "file", bytes |-> WriteText(content), readable |-> TRUE]
        ELSE d[q]]

\* the filesystem after the file is written and chmod 0644
AfterWrite(d, dest_path, content) ==
    [q \in DOMAIN d \cup {dest_path} |->
        IF q = dest_path THEN [kind |-> "file", bytes |-> WriteText(content), readable |-> TRUE]
        ELSE d[q]]

(***************************************************************************)
(* One invocation (QuadletAppModule).  run[p] holds the module parameters  *)
(* (name, state, force, cnp = _control_node_processed, tree), the fields   *)
(* the module sets (app_name, plan = processed_files, needs_update,        *)
(* nsm = needs_service_management, changed = self.changed, deps), the      *)
(* position pc, and the result handed to exit_json / fail_json.  ops is    *)
(* the record of what the invocation did to the outside: files opened and  *)
(* written, commands issued.                                               *)
(***************************************************************************)
Procs == {1, 2}

EmptyTree ==
    [srcKind |-> "dir", hasQuadlets |-> TRUE, quadlets |-> <<>>,
     initDirs |-> {}, init |-> <<>>, configDirs |-> {}, config |-> <<>>]

NoPrev == [ok |-> FALSE, name |-> "", state |-> "installed", force |-> FALSE,
           cnp |-> FALSE, tree |-> EmptyTree, failedAt |-> "", failedCmd |-> ""]

IdleRun ==
    [pc |-> "idle", runNo |-> 0,
     name |-> "", state |-> "installed", force |-> FALSE, cnp |-> FALSE, tree |-> EmptyTree,
     app_name |-> "", plan |-> <<>>, needs_update |-> FALSE, nsm |-> FALSE,
     changed |-> FALSE, service_changed |-> FALSE, written |-> 0,
     dryrun |-> "none", listing |-> <<>>, deps |-> <<>>,
     ops |-> <<>>, answers |-> <<>>, cmdsOk |-> TRUE, fails |-> <<>>, flips0 |-> 0, svc0 |-> FALSE,
     partial |-> {},
     result |-> "none", out_changed |-> FALSE, msg |-> "",
     delta |-> "first", prev |-> NoPrev]

\* a fresh invocation with the given parameters
NewInvocation(name, state, force, cnp, tree, active) ==
    [IdleRun EXCEPT !.pc = "start", !.runNo = 1, !.name = name, !.state = state,
                    !.force = force, !.cnp = cnp, !.tree = tree, !.svc0 = active]

ServiceName(app_name) == app_name \o "--main.service"

GENERATOR == "/usr/lib/systemd/system-generators/podman-system-generator"

\* what an external command can do: exit 0, exit non-zero, time out, or not
\* be there to execute
Outcomes == {"ok", "nonzero", "timeout", "notfound"}

Set(p, r) == run' = [run EXCEPT ![p] = r]

\* module.fail_json(msg=...) ends the invocation
Failed(r, msg) == [r EXCEPT !.pc = "failed", !.result = "failed", !.msg = msg]

\* module.exit_json(changed=...) ends the invocation
Exited(r, changed) == [r EXCEPT !.pc = "done", !.result = "ok", !.out_changed = changed]

\* run, phase 1: the name is lowercased and checked; without the action plugin
\* validate_all checks the tree too.  With it, ActionModule.run has checked
\* that src is a directory before the module is invoked.
Validate(p) ==
    /\ run[p].pc = "start"
    /\ LET r     == run[p]
           lname == Lower(r.name)
           errs  == IF r.cnp
                    THEN IF r.tree.srcKind = "missing" THEN {"Source directory not found on control node"}
                         ELSE IF r.tree.srcKind # "dir" THEN {"Source path is not a directory"}
                         ELSE {ValidateAppName(lname)}
                    ELSE ValidateAll(r.tree, lname)
       IN  \E err \in errs :
               Set(p, IF err # "" THEN Failed([r EXCEPT !.app_name = lname], err)
                      ELSE [r EXCEPT !.app_name = lname, !.pc = "validated"])
    /\ UNCHANGED <<disk, svcActive, flips>>

\* run, phases 2 and 3: processed_files is built
Process(p) ==
    /\ run[p].pc = "validated"
    /\ Set(p, [run[p] EXCEPT !.plan = ProcessFiles(run[p].app_name, run[p].tree, run[p].cnp),
                             !.pc = "planned"])
    /\ UNCHANGED <<disk, svcActive, flips>>

\* run, phase 4: needs_update = self.idempotency.needs_deployment(processed_files)
CheckIdempotency(p) ==
    /\ run[p].pc = "planned"
    /\ Set(p, [run[p] EXCEPT !.needs_update = NeedsDeployment(disk, run[p].plan, run[p].force),
                             !.ops = @ \o DeploymentReads(disk, run[p].plan, run[p].force),
                             !.pc = "checked"])
    /\ UNCHANGED <<disk, svcActive, flips>>

\* the commands of the invocation that did not exit with 0, with what happened
Noted(fails, verb, o) == IF o = "ok" THEN fails ELSE Append(fails, <<verb, o>>)

\* _is_service_active under outcome o of "systemctl is-active": any failure
\* to run the command reads as "not active"
IsServiceActive(o, active) == IF o = "ok" THEN active ELSE FALSE

IsActiveCmd(r) == <<"systemctl", "is-active", ServiceName(r.app_name)>>

\* AfterDecision as it would be if the early exit looked at the files only
AfterDecisionFilesOnly(r) ==
    IF ~r.needs_update THEN Exited(r, FALSE) ELSE [r EXCEPT !.pc = "deploy"]

\* where run goes once needs_update and needs_service_management are known
AfterDecision(r) ==
    IF ~r.needs_update /\ ~r.nsm THEN Exited(r, FALSE)
    ELSE IF r.needs_update THEN [r EXCEPT !.pc = "deploy"]
    ELSE [r EXCEPT !.pc = "restart_check"]

\* _needs_service_management, and the early exit of run when nothing is to do
NeedsServiceManagement(p) ==
    /\ run[p].pc = "checked"
    /\ LET r == run[p]
       IN  IF r.state = "started"
           THEN \E o \in Outcomes \ {"nonzero"} :
                    Set(p, AfterDecision(
                        [r EXCEPT !.nsm = ~IsServiceActive(o, svcActive),
                                  !.ops = Append(@, IsActiveCmd(r)),
                                  !.answers = Append(@, IsServiceActive(o, svcActive)),
                                  !.cmdsOk = @ /\ o = "ok", !.fails = Noted(@, "is-active", o)]))
           ELSE Set(p, AfterDecision([r EXCEPT !.nsm = (r.state = "restarted")]))
    /\ UNCHANGED <<disk, svcActive, flips>>

\* AfterDeploy as it would be if the loop of _deploy_files ended after its
\* first file
AfterDeployFirstFile(r) ==
    IF r.written >= 1 \/ Len(r.plan) = 0 THEN [r EXCEPT !.changed = TRUE, !.pc = "dryrun"] ELSE r

\* where run goes once _deploy_files has written the last file
AfterDeploy(r) ==
    IF r.written = Len(r.plan) THEN [r EXCEPT !.changed = TRUE, !.pc = "dryrun"] ELSE r

\* _deploy_files, one iteration: the parent directory is made, the file written
DeployFile(p) ==
    /\ run[p].pc = "deploy"
    /\ LET r    == run[p]
           f    == r.plan[r.written + 1]
           dir  == OsPathDirname(f.dest)
           d1   == AfterMakedirs(disk, dir)
       IN  IF r.written = Len(r.plan)
           THEN Set(p, AfterDeploy(r)) /\ UNCHANGED disk
           ELSE IF ~MakedirsOk(disk, dir)
           THEN Set(p, Failed(r, "Failed to create directory")) /\ UNCHANGED disk
           ELSE IF ~WriteOk(d1, f.dest)
           THEN Set(p, Failed(r, "Failed to write file")) /\ disk' = d1
           ELSE /\ disk' = AfterWrite(d1, f.dest, f.content)
                /\ Set(p, AfterDeploy([r EXCEPT !.written = @ + 1,
                                                !.ops = Append(@, <<"write", f.dest>>)]))
    /\ UNCHANGED <<svcActive, flips>>

\* what the generator writes to stderr when it rejects the units
GeneratorStderr == "quadlet-generator: converting: unsupported key"

\* AfterDryRun as it would be if the exit code were not looked at
AfterDryRunNoExitCode(r, o) ==
    IF o = "timeout" THEN Failed(r, "dryrun timed out")
    ELSE IF o = "notfound" THEN Failed(r, "Failed to execute quadlet syntax validation")
    ELSE [r EXCEPT !.pc = "reload"]

\* _validate_quadlet_syntax after the dry run ended with outcome o
AfterDryRun(r, o) ==
    IF o = "timeout" THEN Failed(r, "dryrun timed out")
    ELSE IF o = "notfound" THEN Failed(r, "Failed to execute quadlet syntax validation")
    ELSE IF o = "nonzero" THEN Failed(r, Strip(GeneratorStderr))
    ELSE [r EXCEPT !.pc = "reload"]

\* _validate_quadlet_syntax: the generator's dry run
ValidateQuadletSyntax(p) ==
    /\ run[p].pc = "dryrun"
    /\ \E o \in Outcomes :
         Set(p, AfterDryRun([run[p] EXCEPT !.ops = Append(@, <<GENERATOR, "-dryrun", "-v">>),
                                          !.dryrun = o,
                                          !.cmdsOk = @ /\ o = "ok", !.fails = Noted(@, "dryrun", o)], o))
    /\ UNCHANGED <<disk, svcActive, flips>>

\* _systemctl(args) under outcome o: the record after the call
Systemctl(r, args, o, next) ==
    LET r1 == [r EXCEPT !.ops = Append(@, <<"systemctl">> \o args), !.cmdsOk = @ /\ o = "ok", !.fails = Noted(@, args[1], o)]
    IN  IF o = "ok" THEN [r1 EXCEPT !.pc = next]
        ELSE IF o = "nonzero" THEN Failed(r1, "systemctl failed")
        ELSE IF o = "timeout" THEN Failed(r1, "systemctl timed out")
        ELSE Failed(r1, "Failed to execute systemctl")

\* ServiceChanged as it would be if _manage_systemd never set service_changed
ServiceChangedNever(r) == r

\* service_changed = True, reached only when the call before it returned
ServiceChanged(r) == IF r.pc = "failed" THEN r ELSE [r EXCEPT !.service_changed = TRUE]

\* _manage_systemd: self._systemctl(["daemon-reload"]).  partial keeps which
\* other invocations were part-way through _deploy_files when the service
\* manager re-scanned the unit directory.
DaemonReload(p) ==
    /\ run[p].pc = "reload"
    /\ \E o \in Outcomes :
         LET midway == {q \in Procs \ {p} : /\ run[q].pc = "deploy"
                                            /\ run[q].written > 0
                                            /\ run[q].written < Len(run[q].plan)}
         IN  Set(p, ServiceChanged(Systemctl([run[p] EXCEPT !.partial = midway],
                                             <<"daemon-reload">>, o, "restart_check")))
    /\ UNCHANGED <<disk, svcActive, flips>>

\* _manage_systemd: needs_restart; is-active is asked only for state started
\* after a change of files
RestartCheck(p) ==
    /\ run[p].pc = "restart_check"
    /\ LET r == run[p]
       IN  IF r.state = "restarted" THEN Set(p, [r EXCEPT !.pc = "list_deps"])
           ELSE IF r.state = "started" /\ r.changed
           THEN \E o \in Outcomes \ {"nonzero"} :
                    Set(p, [r EXCEPT !.ops = Append(@, IsActiveCmd(r)),
                                     !.answers = Append(@, IsServiceActive(o, svcActive)),
                                     !.cmdsOk = @ /\ o = "ok", !.fails = Noted(@, "is-active", o),
                                     !.pc = IF IsServiceActive(o, svcActive)
                                            THEN "list_deps" ELSE "start_check"])
           ELSE Set(p, [r EXCEPT !.pc = "start_check"])
    /\ UNCHANGED <<disk, svcActive, flips>>

\* the lines "systemctl list-dependencies --type service <main>" can print for
\* an application: the unit itself, then some of these units, indented
DependencyUnits(app_name) ==
    <<app_name \o "--db.service", "sys-" \o app_name \o "--x.service",
      app_name \o "--net.service">>

Listings(app_name) ==
    {<<ServiceName(app_name)>>
        \o SelectSeq([i \in 1..Len(DependencyUnits(app_name)) |->
                         IF i \in S THEN "  " \o DependencyUnits(app_name)[i] ELSE ""],
                     LAMBDA l : l # "")
     : S \in SUBSET (1..Len(DependencyUnits(app_name)))}

\* AppDependencies as it would be if the main service were not left out
AppDependenciesWithMain(app_name, lines) ==
    LET stripped == [i \in 1..Len(lines) |-> LStrip(lines[i])]
    IN  SelectSeq(stripped, LAMBDA l : StartsWith(l, app_name \o "--"))

\* the filter of _get_app_dependencies over the lines of stdout
AppDependencies(app_name, lines) ==
    LET stripped == [i \in 1..Len(lines) |-> LStrip(lines[i])]
    IN  SelectSeq(stripped, LAMBDA l : StartsWith(l, app_name \o "--") /\ l # ServiceName(app_name))

ListDepsCmd(r) ==
    <<"systemctl", "list-dependencies", "--type", "service", ServiceName(r.app_name)>>

\* _restart_dependencies, first half: _get_app_dependencies.  A non-zero exit
\* and a timeout both read as "no dependencies"; a missing systemctl is fatal.
GetAppDependencies(p) ==
    /\ run[p].pc = "list_deps"
    /\ \E o \in Outcomes :
         LET r == [run[p] EXCEPT !.ops = Append(@, ListDepsCmd(run[p])), !.cmdsOk = @ /\ o = "ok", !.fails = Noted(@, "list-dependencies", o)]
         IN  IF o = "notfound" THEN Set(p, Failed(r, "systemctl command not found"))
             ELSE \E out \in (IF o = "ok" THEN Listings(r.app_name) ELSE {<<>>}) :
                    LET deps == IF o = "ok" THEN AppDependencies(r.app_name, out) ELSE <<>>
                    IN  Set(p, [r EXCEPT !.listing = out, !.deps = deps,
                                         !.pc = IF deps = <<>> THEN "restart_main"
                                                ELSE "restart_deps"])
    /\ UNCHANGED <<disk, svcActive, flips>>

\* _restart_dependencies, second half: one restart command for all of them
RestartDependencies(p) ==
    /\ run[p].pc = "restart_deps"
    /\ \E o \in Outcomes :
         Set(p, Systemctl(run[p], <<"restart">> \o run[p].deps, o, "restart_main"))
    /\ UNCHANGED <<disk, svcActive, flips>>

\* _manage_systemd: self._systemctl(["restart", service_name])
RestartMain(p) ==
    /\ run[p].pc = "restart_main"
    /\ \E o \in Outcomes :
         /\ Set(p, ServiceChanged(Systemctl(run[p], <<"restart", ServiceName(run[p].app_name)>>,
                                            o, "exit")))
         /\ svcActive' = IF o = "ok" THEN TRUE ELSE svcActive
    /\ UNCHANGED <<disk, flips>>

\* StartConsidered as it would be if the elif tested the service only
StartConsideredAlways(r) == TRUE

\* _manage_systemd, the elif: the left operand of
\* self.state == "started" and not self._is_service_active(service_name)
StartConsidered(r) == r.state = "started"

\* _manage_systemd, the elif: is-active is asked again for state started
StartCheck(p) ==
    /\ run[p].pc = "start_check"
    /\ LET r == run[p]
       IN  IF StartConsidered(r)
           THEN \E o \in Outcomes \ {"nonzero"} :
                    Set(p, [r EXCEPT !.ops = Append(@, IsActiveCmd(r)),
                                     !.answers = Append(@, IsServiceActive(o, svcActive)),
                                     !.cmdsOk = @ /\ o = "ok", !.fails = Noted(@, "is-active", o),
                                     !.pc = IF IsServiceActive(o, svcActive)
                                            THEN "exit" ELSE "start_main"])
           ELSE Set(p, [r EXCEPT !.pc = "exit"])
    /\ UNCHANGED <<disk, svcActive, flips>>

\* _manage_systemd: self._systemctl(["start", service_name])
StartMain(p) ==
    /\ run[p].pc = "start_main"
    /\ \E o \in Outcomes :
         /\ Set(p, ServiceChanged(Systemctl(run[p], <<"start", ServiceName(run[p].app_name)>>,
                                            o, "exit")))
         /\ svcActive' = IF o = "ok" THEN TRUE ELSE svcActive
    /\ UNCHANGED <<disk, flips>>

\* run: self.changed picks up service_changed, then exit_json(changed=self.changed)
ExitJson(p) ==
    /\ run[p].pc = "exit"
    /\ Set(p, Exited(run[p], run[p].changed \/ run[p].service_changed))
    /\ UNCHANGED <<disk, svcActive, flips>>

\* somebody else starts or stops the main service
ExternalFlip ==
    /\ flips < MaxFlips
    /\ \E p \in Procs : run[p].pc \notin {"idle", "done", "failed"}
    /\ svcActive' = ~svcActive
    /\ flips' = flips + 1
    /\ UNCHANGED <<run, disk>>

\* the steps of one invocation
Step(p) ==
    \/ Validate(p)
    \/ Process(p)
    \/ CheckIdempotency(p)
    \/ NeedsServiceManagement(p)
    \/ DeployFile(p)
    \/ ValidateQuadletSyntax(p)
    \/ DaemonReload(p)
    \/ RestartCheck(p)
    \/ GetAppDependencies(p)
    \/ RestartDependencies(p)
    \/ RestartMain(p)
    \/ StartCheck(p)
    \/ StartMain(p)
    \/ ExitJson(p)

(***************************************************************************)
(* Inputs.                                                                 *)
(***************************************************************************)
Q(name, content) == [name |-> name, isFile |-> TRUE, content |-> content]
F(container, path, content) == [container |-> container, path |-> path, content |-> content]

States == {"installed", "started", "restarted"}

\* a single unit
TreeMain == [EmptyTree EXCEPT !.quadlets = <<Q("main.container", "[Container]\nImage=i\n")>>]

\* two units and an init file; the main unit starts with a comment
TreeAux ==
    [EmptyTree EXCEPT
        !.quadlets = <<Q("db.volume", "[Volume]\n"),
                       Q("main.container", "# web\n[Container]\nVolume=db.volume:/d\nVolume=init.d:/i\n")>>,
        !.initDirs = {"main"},
        !.init = <<F("main", "run.sh", "echo\n")>>]

\* no main.container, and an init.d subdirectory without a unit
TreeBad ==
    [EmptyTree EXCEPT
        !.quadlets = <<Q("web.container", "[Container]\n")>>,
        !.initDirs = {"db"},
        !.init = <<F("db", "a", "1")>>]

TreeMissing == [EmptyTree EXCEPT !.srcKind = "missing", !.hasQuadlets = FALSE]

\* EmptyTree: a source directory without any unit file (the action plugin
\* hands over three empty lists)
Trees == {TreeMain, TreeAux, TreeBad, TreeMissing, EmptyTree}

\* resolved names (params["name"] or the basename of src)
RunNames == {"App", "9x"}

EmptyDisk == [q \in {} |-> [kind |-> "dir", bytes |-> "", readable |-> TRUE]]

\* the filesystem after every file of plan has been deployed on d
RECURSIVE Deployed(_, _)
Deployed(d, plan) ==
    IF plan = <<>> THEN d
    ELSE Deployed(AfterWrite(AfterMakedirs(d, OsPathDirname(plan[1].dest)),
                             plan[1].dest, plan[1].content), Tail(plan))

ReplaceAll(s, c, by) ==
    Flat([i \in 1..Len(s) |-> IF Ch(s, i) = c THEN by ELSE Ch(s, i)], 1, Len(s))

DiskVariants == {"absent", "dir", "unreadable", "crlf", "cr", "newline", "stale"}

\* d with the file at path changed behind the module's back
Tampered(d, path, variant) ==
    IF variant = "absent" THEN [q \in DOMAIN d \ {path} |-> d[q]]
    ELSE [d EXCEPT ![path] =
            CASE variant = "dir"        -> [kind |-> "dir", bytes |-> "", readable |-> TRUE]
              [] variant = "unreadable" -> [@ EXCEPT !.readable = FALSE]
              [] variant = "crlf"       -> [@ EXCEPT !.bytes = ReplaceAll(@, "\n", "\r\n")]
              [] variant = "cr"         -> [@ EXCEPT !.bytes = ReplaceAll(@, "\n", "\r")]
              [] variant = "newline"    -> [@ EXCEPT !.bytes = @ \o "\n"]
              [] variant = "stale"      -> [@ EXCEPT !.bytes = "old"]]

\* filesystems an invocation can find: nothing deployed, the plan deployed by
\* an earlier invocation, or that with one destination changed since; each
\* of the first two also with the files left by a unit ("old") that is no
\* longer in the source tree
InitialDisks(name, tree, cnp) ==
    LET plan == ProcessFiles(Lower(name), tree, cnp)
        full == Deployed(EmptyDisk, plan)
        left == <<[dest |-> QuadletDest(Lower(name), "old.container"), content |-> "[Container]\n"],
                  [dest |-> AuxDest(Lower(name), "init", "old", "f"), content |-> "old\n"]>>
    IN  {EmptyDisk, full, Deployed(EmptyDisk, left), Deployed(full, left)}
        \cup {Tampered(full, plan[i].dest, v) : i \in 1..Len(plan), v \in DiskVariants}

Init ==
    /\ flips = 0
    /\ svcActive \in BOOLEAN
    /\ \E name \in RunNames, state \in States, force \in BOOLEAN, cnp \in BOOLEAN, tree \in Trees :
           /\ run = [p \in Procs |-> IF p = 1
                                     THEN NewInvocation(name, state, force, cnp, tree, svcActive)
                                     ELSE IdleRun]
           /\ disk \in InitialDisks(name, tree, cnp)

Next == Step(1) \/ ExternalFlip

Spec == Init /\ [][Next]_vars

(***************************************************************************)
(* Properties of one invocation (specification Spec).                      *)
(***************************************************************************)
IsCmd(op, verb) == Len(op) >= 2 /\ op[1] = "systemctl" /\ op[2] = verb

\* what the invocation did to the host: files written and lifecycle commands
\* (queries - is-active, list-dependencies, reads, the dry run - left out)
Effects(r) ==
    SelectSeq(r.ops, LAMBDA op : op[1] = "write" \/ IsCmd(op, "daemon-reload")
                                 \/ IsCmd(op, "restart") \/ IsCmd(op, "start"))

Issued(r, verb) == \E i \in 1..Len(r.ops) : IsCmd(r.ops[i], verb)

\* the row of the decision table of the orchestrator
TableRow(state, filesChanged, serviceActive) ==
    LET deploy == IF filesChanged THEN <<"write files", "daemon-reload">> ELSE <<>>
    IN  CASE state = "installed" -> deploy
          [] state = "started"   ->
                IF filesChanged /\ serviceActive
                THEN deploy \o <<"restart dependencies", "restart main">>
                ELSE IF ~serviceActive THEN deploy \o <<"start main">>
                ELSE deploy
          [] state = "restarted" -> deploy \o <<"restart dependencies", "restart main">>

\* the operations a table entry stands for, for invocation r
EntryOps(r, entry) ==
    CASE entry = "write files"   -> [i \in 1..Len(r.plan) |-> <<"write", r.plan[i].dest>>]
      [] entry = "daemon-reload" -> << <<"systemctl", "daemon-reload">> >>
      [] entry = "restart dependencies" ->
            IF r.deps = <<>> THEN <<>> ELSE << <<"systemctl", "restart">> \o r.deps >>
      [] entry = "restart main"  -> << <<"systemctl", "restart", ServiceName(r.app_name)>> >>
      [] entry = "start main"    -> << <<"systemctl", "start", ServiceName(r.app_name)>> >>

RECURSIVE RowOps(_, _)
RowOps(r, row) == IF row = <<>> THEN <<>> ELSE EntryOps(r, row[1]) \o RowOps(r, Tail(row))

\* the service was left alone by everybody else during the invocation, and
\* every external command of the invocation succeeded
Undisturbed(r) == r.cmdsOk /\ flips = r.flips0

\* C1: a successful, undisturbed invocation performs exactly the operations
\* of the row of the decision table selected by the desired state, by
\* whether the files changed and by whether the service was active.
C1_DecisionTable ==
    \A p \in Procs :
        run[p].pc = "done" /\ Undisturbed(run[p])
            => Effects(run[p]) = RowOps(run[p], TableRow(run[p].state, run[p].needs_update,
                                                          run[p].svc0))

\* state started, files changed, service active: restart of dependencies and main
C1_Witness ==
    \E p \in Procs :
        /\ run[p].pc = "done" /\ Undisturbed(run[p])
        /\ run[p].state = "started" /\ run[p].needs_update /\ run[p].svc0
        /\ run[p].deps # <<>>
        /\ Issued(run[p], "restart")

\* C4: once the dry run of the generator has exited non-zero the invocation
\* has failed with the generator's stderr as its message, and it issues no
\* daemon-reload, start or restart.
C4_DryRunFailureStops ==
    \A p \in Procs :
        run[p].dryrun = "nonzero"
            => /\ run[p].pc = "failed" /\ run[p].result = "failed"
               /\ run[p].msg = Strip(GeneratorStderr)
               /\ ~Issued(run[p], "daemon-reload")
               /\ ~Issued(run[p], "start")
               /\ ~Issued(run[p], "restart")

\* the dry run was run after the files were written, and exited non-zero
C4_Witness ==
    \E p \in Procs :
        /\ run[p].dryrun = "nonzero"
        /\ run[p].written = Len(run[p].plan) /\ run[p].written > 0
        /\ run[p].state = "restarted"

\* C5: with state installed the only service-manager command ever issued is
\* daemon-reload, and only after a change of files; with no change the
\* invocation ends with changed=false and has issued no command at all.
C5_InstalledOnlyReloads ==
    \A p \in Procs :
        run[p].state = "installed"
            => /\ \A i \in 1..Len(run[p].ops) :
                    run[p].ops[i][1] = "systemctl"
                        => /\ run[p].ops[i] = <<"systemctl", "daemon-reload">>
                           /\ run[p].needs_update
               /\ (run[p].pc = "done" /\ ~run[p].needs_update
                        => /\ ~run[p].out_changed
                           /\ \A i \in 1..Len(run[p].ops) : run[p].ops[i][1] # "systemctl")

\* an installed invocation that wrote its files and reloaded has finished
C5_Witness ==
    \E p \in Procs :
        /\ run[p].state = "installed" /\ run[p].pc = "done"
        /\ Issued(run[p], "daemon-reload")

\* the units of a listing that belong to the application, main service excluded
NamespacedUnits(app_name, listing) ==
    {u \in {LStrip(listing[i]) : i \in 1..Len(listing)} :
        SubSeq(u, 1, Len(app_name) + 2) = app_name \o "--" /\ u # ServiceName(app_name)}

\* C6: whenever the main service has been restarted, the namespaced
\* dependencies of the listing were restarted before it by one single restart
\* command naming exactly them; when there are none, no other restart was issued.
C6_DependenciesFirst ==
    \A p \in Procs :
        LET r    == run[p]
            main == <<"systemctl", "restart", ServiceName(r.app_name)>>
            deps == NamespacedUnits(r.app_name, r.listing)
            batches == {j \in 1..Len(r.ops) : IsCmd(r.ops[j], "restart") /\ r.ops[j] # main}
        IN  \A k \in 1..Len(r.ops) :
                r.ops[k] = main
                    => IF deps = {} THEN batches = {}
                       ELSE \E j \in 1..(k - 1) :
                               /\ batches = {j}
                               /\ Len(r.ops[j]) = 2 + Cardinality(deps)
                               /\ {r.ops[j][i] : i \in 3..Len(r.ops[j])} = deps

\* the listing named two namespaced dependencies and a foreign unit, and the
\* main service has been restarted
C6_Witness ==
    \E p \in Procs :
        /\ Len(run[p].listing) = 4
        /\ Cardinality(NamespacedUnits(run[p].app_name, run[p].listing)) = 2
        /\ run[p].ops[Len(run[p].ops)] = <<"systemctl", "restart", ServiceName(run[p].app_name)>>
        /\ run[p].pc = "done"

CheckedPcs ==
    {"checked", "deploy", "dryrun", "reload", "restart_check", "list_deps", "restart_deps",
     "restart_main", "start_check", "start_main", "exit", "done"}

\* C7: under force, needs_deployment answers true and opens no destination;
\* a successful invocation has written every file of the plan and returns
\* changed=true.
C7_ForceAlwaysChanges ==
    \A p \in Procs :
        run[p].force
            => /\ \A i \in 1..Len(run[p].ops) : run[p].ops[i][1] # "read"
               /\ (run[p].pc \in CheckedPcs => run[p].needs_update)
               /\ (run[p].pc = "done"
                     => /\ run[p].out_changed
                        /\ \A i \in 1..Len(run[p].plan) :
                              \E k \in 1..Len(run[p].ops) :
                                  run[p].ops[k] = <<"write", run[p].plan[i].dest>>)

\* a forced invocation over an already deployed, identical plan has finished
C7_Witness ==
    \E p \in Procs :
        /\ run[p].force /\ run[p].pc = "done" /\ run[p].state = "installed"
        /\ Len(run[p].plan) = 3
        /\ run[p].written = 3

\* the answer the idempotency engine is specified to give: some destination
\* is missing, is no regular file, cannot be read, or holds other bytes than
\* the planned content
BytesDiffer(d, plan) ==
    \E i \in 1..Len(plan) :
        \/ plan[i].dest \notin DOMAIN d
        \/ d[plan[i].dest].kind # "file"
        \/ ~d[plan[i].dest].readable
        \/ d[plan[i].dest].bytes # plan[i].content

\* C8: without force, needs_deployment answers true exactly when some planned
\* destination is missing, is no regular file, is unreadable, or holds bytes
\* that differ from the planned content (line endings included).
C8_ChangedIffBytesDiffer ==
    \A p \in Procs :
        run[p].pc = "checked" /\ ~run[p].force
            => run[p].needs_update = BytesDiffer(disk, run[p].plan)

(***************************************************************************)
(* Invocations made one after the other (specification SpecRerun): the     *)
(* caller runs the module again, with the same inputs or with one byte of  *)
(* one source file changed.                                                *)
(***************************************************************************)
\* a unit with a comment before its first section header
TreeComment ==
    [EmptyTree EXCEPT !.quadlets = <<Q("main.container", "# v1\n[Container]\nImage=i\n")>>]

\* a unit and a config file with carriage returns
TreeCR ==
    [EmptyTree EXCEPT
        !.quadlets = <<Q("main.container", "[Container]\r\nImage=i\r\n")>>,
        !.configDirs = {"main"},
        !.config = <<F("main", "a.conf", "k=v\r\n")>>]

RerunTrees == {TreeComment, TreeCR}

\* the bytes a change can put in place of another
MutChars == {"x", "\n"}

\* content with the byte at position i replaced by c
WithByte(content, i, c) == SubSeq(content, 1, i - 1) \o c \o SubSeq(content, i + 1, Len(content))

\* the trees that differ from tree in exactly one byte of one file's content
OneByteChanges(tree) ==
    {[tree EXCEPT !.quadlets[k].content = WithByte(@, i, c)] :
        <<k, i, c>> \in {t \in (1..Len(tree.quadlets)) \X (1..40) \X MutChars :
                            /\ t[2] <= Len(tree.quadlets[t[1]].content)
                            /\ Ch(tree.quadlets[t[1]].content, t[2]) # t[3]}}
    \cup
    {[tree EXCEPT !.init[k].content = WithByte(@, i, c)] :
        <<k, i, c>> \in {t \in (1..Len(tree.init)) \X (1..40) \X MutChars :
                            /\ t[2] <= Len(tree.init[t[1]].content)
                            /\ Ch(tree.init[t[1]].content, t[2]) # t[3]}}
    \cup
    {[tree EXCEPT !.config[k].content = WithByte(@, i, c)] :
        <<k, i, c>> \in {t \in (1..Len(tree.config)) \X (1..40) \X MutChars :
                            /\ t[2] <= Len(tree.config[t[1]].content)
                            /\ Ch(tree.config[t[1]].content, t[2]) # t[3]}}

\* what the next invocation remembers of the one that ended
Summary(r) ==
    [ok |-> r.result = "ok", name |-> r.name, state |-> r.state, force |-> r.force,
     cnp |-> r.cnp, tree |-> r.tree, failedAt |-> IF r.result = "ok" THEN "" ELSE r.msg,
     failedCmd |-> IF r.result = "ok" \/ r.fails = <<>> THEN "" ELSE r.fails[Len(r.fails)][1]]

\* the caller invokes the module again
NewRun(p) ==
    /\ run[p].pc \in {"done", "failed"}
    /\ run[p].runNo < MaxRuns
    /\ LET r    == run[p]
           next == [NewInvocation(r.name, r.state, r.force, r.cnp, r.tree, svcActive)
                       EXCEPT !.runNo = r.runNo + 1, !.flips0 = flips, !.prev = Summary(r)]
       IN  \/ Set(p, [next EXCEPT !.delta = "same"])
           \/ /\ r.result = "ok"
              /\ \E t \in OneByteChanges(r.tree) :
                    Set(p, [next EXCEPT !.delta = "byte", !.tree = t, !.force = FALSE])
    /\ UNCHANGED <<disk, svcActive, flips>>

InitRerun ==
    /\ flips = 0
    /\ svcActive \in BOOLEAN
    /\ disk = EmptyDisk
    /\ \E state \in States, force \in BOOLEAN, cnp \in BOOLEAN, tree \in RerunTrees :
           run = [p \in Procs |-> IF p = 1
                                  THEN NewInvocation("app", state, force, cnp, tree, svcActive)
                                  ELSE IdleRun]

NextRerun == Step(1) \/ NewRun(1)

SpecRerun == InitRerun /\ [][NextRerun]_vars

Wrote(r) == \E i \in 1..Len(r.ops) : r.ops[i][1] = "write"

\* C2: after a successful invocation with force=false and state installed or
\* started, the next invocation with the same inputs writes no file and
\* returns changed=false.
C2_SecondRunUnchanged ==
    \A p \in Procs :
        LET r == run[p]
        IN  /\ r.runNo = 2 /\ r.delta = "same" /\ r.prev.ok
            /\ ~r.force /\ r.state \in {"installed", "started"}
            /\ r.pc = "done" /\ Undisturbed(r)
            => ~r.out_changed /\ ~Wrote(r)

\* C3: after a successful invocation, the next invocation with force=false
\* and one byte of one source file changed returns changed=true.
C3_OneByteChanges ==
    \A p \in Procs :
        LET r == run[p]
        IN  /\ r.runNo = 2 /\ r.delta = "byte" /\ r.prev.ok
            /\ ~r.force /\ r.pc = "done"
            => r.out_changed

(***************************************************************************)
(* Name validation alone (specification SpecName): every raw name over a   *)
(* small alphabet, through both validation paths.                          *)
(***************************************************************************)
RECURSIVE StringsUpTo(_, _)
StringsUpTo(alphabet, n) ==
    IF n = 0 THEN {""}
    ELSE LET shorter == StringsUpTo(alphabet, n - 1)
         IN  shorter \cup {s \o c : s \in shorter, c \in alphabet}

NameAlphabet == {"a", "B", "7", "-", "_", "\n"}

InitName ==
    /\ flips = 0
    /\ svcActive = FALSE
    /\ disk = EmptyDisk
    /\ \E name \in StringsUpTo(NameAlphabet, MaxNameLen), cnp \in BOOLEAN :
           run = [p \in Procs |-> IF p = 1
                                  THEN NewInvocation(name, "installed", FALSE, cnp, TreeMain, FALSE)
                                  ELSE IdleRun]

NextName == Validate(1)

SpecName == InitName /\ [][NextName]_vars

\* the naming grammar: one letter, or a letter, then letters, digits, "_" and
\* "-", then a letter or digit
InGrammar(s) ==
    \/ Len(s) = 1 /\ InStr(s, LowerLetters)
    \/ /\ Len(s) >= 2
       /\ InStr(Ch(s, 1), LowerLetters)
       /\ InStr(Ch(s, Len(s)), LowerLetters \o Digits)
       /\ \A i \in 1..Len(s) : InStr(Ch(s, i), LowerLetters \o Digits \o "_-")

\* C9: validation accepts a raw name exactly when its lowercased form is in
\* the naming grammar, and rejects every other name with the naming error,
\* on both validation paths.
C9_NameGrammar ==
    \A p \in Procs :
        /\ run[p].pc = "validated" => InGrammar(Lower(run[p].name))
        /\ run[p].pc = "failed" => ~InGrammar(Lower(run[p].name)) /\ run[p].msg = NameError

(***************************************************************************)
(* Two applications in one unit namespace (specification SpecNamespace):   *)
(* a second application is planned after a first one.                      *)
(***************************************************************************)
PartAlphabet == {"a", "-"}

\* the names validation accepts, among those over the alphabet
ValidNames == {n \in StringsUpTo(PartAlphabet, MaxPartLen) : AppNameOk(Lower(n))}

\* trees with main.container and one more container unit
NamespaceTrees ==
    {[EmptyTree EXCEPT !.quadlets = <<Q(stem \o ".container", "[Container]\n")>>] :
        stem \in StringsUpTo(PartAlphabet, MaxPartLen) \ {""}}

InitNamespace ==
    /\ flips = 0
    /\ svcActive = FALSE
    /\ disk = EmptyDisk
    /\ \E name \in ValidNames, tree \in NamespaceTrees :
           run = [p \in Procs |-> IF p = 1
                                  THEN NewInvocation(name, "installed", FALSE, TRUE, tree, FALSE)
                                  ELSE IdleRun]

\* the second application is handed to the module
InvokeSecond ==
    /\ run[1].pc = "planned"
    /\ run[2].pc = "idle"
    /\ \E name \in ValidNames, tree \in NamespaceTrees :
           Set(2, NewInvocation(name, "installed", FALSE, TRUE, tree, FALSE))
    /\ UNCHANGED <<disk, svcActive, flips>>

NextNamespace == Validate(1) \/ Process(1) \/ InvokeSecond \/ Validate(2) \/ Process(2)

SpecNamespace == InitNamespace /\ [][NextNamespace]_vars

\* the destinations of a plan
Dests(plan) == {plan[i].dest : i \in 1..Len(plan)}

\* the identity directive injected into the unit of a one-unit plan
InjectedName(plan) == Split(plan[1].content, "\n")[2]

\* C10: two applications with different names never share a unit destination
\* nor an injected identity name.
C10_NoCollision ==
    run[1].pc = "planned" /\ run[2].pc = "planned" /\ run[1].app_name # run[2].app_name
        => /\ Dests(run[1].plan) \cap Dests(run[2].plan) = {}
           /\ InjectedName(run[1].plan) # InjectedName(run[2].plan)

(***************************************************************************)
(* Structural validation.                                                  *)
(***************************************************************************)
\* the subdirectories of init.d/ and config.d/ of a file set
AuxDirs(tree) ==
    tree.initDirs \cup tree.configDirs
    \cup {tree.init[i].container : i \in 1..Len(tree.init)}
    \cup {tree.config[i].container : i \in 1..Len(tree.config)}

\* the structural invariants of a file set: quadlets/main.container is there,
\* and every subdirectory X has exactly one of X.container and X.pod
StructurallySound(tree) ==
    /\ tree.srcKind = "dir" /\ tree.hasQuadlets
    /\ \E i \in 1..Len(tree.quadlets) :
           tree.quadlets[i].name = "main.container" /\ tree.quadlets[i].isFile
    /\ \A x \in AuxDirs(tree) :
           Cardinality({i \in 1..Len(tree.quadlets) :
                           tree.quadlets[i].name \in {x \o ".container", x \o ".pod"}}) = 1

\* C11: a run on a file set that breaks the structural invariants writes no
\* destination file and issues no service-manager command, and it ends in
\* failure, in both input modes.
C11_NoActionOnBadStructure ==
    \A p \in Procs :
        LET r == run[p]
        IN  r.pc # "idle" /\ ~StructurallySound(r.tree)
            => /\ \A i \in 1..Len(r.ops) : r.ops[i][1] \notin {"write", "systemctl", GENERATOR}
               /\ r.pc # "done"

(***************************************************************************)
(* validate_init_config_structure alone (specification SpecStructure):     *)
(* source trees with main.container, any of a few more quadlets/ entries,  *)
(* and at most one subdirectory in each of init.d/ and config.d/.          *)
(***************************************************************************)
StructureTrees ==
    LET names   == <<"x.container", "x.pod", "x.volume", ".pod.container", "y.x.pod">>
        entries == {"x", "x.container", "x.pod", ".pod", "y.x", "z"}
        picked(idx) ==
            SelectSeq([i \in 1..Len(names) |-> IF i \in idx THEN Q(names[i], "[Unit]\n")
                                                ELSE Q("", "")],
                      LAMBDA e : e.name # "")
    IN  {[TreeMain EXCEPT !.quadlets = @ \o picked(idx), !.initDirs = i, !.configDirs = c] :
            idx \in SUBSET (1..Len(names)),
            i \in {{}} \cup {{e} : e \in entries},
            c \in {{}} \cup {{e} : e \in entries}}

InitStructure ==
    /\ flips = 0
    /\ svcActive = FALSE
    /\ disk = EmptyDisk
    /\ \E tree \in StructureTrees :
           run = [p \in Procs |-> IF p = 1
                                  THEN NewInvocation("app", "installed", FALSE, FALSE, tree, FALSE)
                                  ELSE IdleRun]

NextStructure == Validate(1)

SpecStructure == InitStructure /\ [][NextStructure]_vars

\* the name is <something>.container or <something>.pod
CarriesSuffix(x) ==
    \E suf \in {".container", ".pod"} : Len(x) > Len(suf) /\ EndsWith(x, suf)

\* the names of the quadlets/ entries with stem x and extension .container or .pod
Matches(tree, x) ==
    {f \in {x \o ".container", x \o ".pod"} :
        \E i \in 1..Len(tree.quadlets) : tree.quadlets[i].name = f}

\* the text s occurs in msg
Contains(msg, s) ==
    \E i \in 1..(Len(msg) - Len(s) + 1) : SubSeq(msg, i, i + Len(s) - 1) = s

\* what validation has to say about subdirectory x: "" to accept
Expected(tree, x) ==
    IF CarriesSuffix(x) THEN "Invalid"
    ELSE IF Cardinality(Matches(tree, x)) = 1 THEN ""
    ELSE IF Matches(tree, x) = {} THEN "No corresponding quadlet"
    ELSE "Ambiguous"

Skipped(line) == Strip(line) = "" \/ StartsWith(Strip(line), "#")

\* preprocess_quadlet_file: Rule 3 on the whole content
InjectNames(p) ==
    /\ run[p].pc = "raw"
    /\ Set(p, [run[p] EXCEPT
                 !.named = Split(ApplyRule3InjectNames(run[p].app_name, run[p].content,
                                                       run[p].filename), "\n"),
                 !.pc = "named"])
    /\ UNCHANGED <<disk, svcActive, flips>>

\* preprocess_quadlet_file: Rule 1 on each line that is not skipped
PrefixResources(p) ==
    /\ run[p].pc = "named"
    /\ LET r == run[p]
       IN  Set(p, [r EXCEPT
                     !.prefixed =
                        [i \in 1..Len(r.named) |->
                            IF ~Skipped(r.named[i]) /\ PathSuffix(r.filename) \in RULE1_EXTENSIONS
                            THEN ApplyRule1PrefixResources(r.app_name, r.named[i])
                            ELSE r.named[i]],
                     !.pc = "prefixed"])
    /\ UNCHANGED <<disk, svcActive, flips>>

\* preprocess_quadlet_file: Rule 2 on each line that is not skipped
ReplacePaths(p) ==
    /\ run[p].pc = "prefixed"
    /\ LET r == run[p]
       IN  Set(p, [r EXCEPT
                     !.out =
                        [i \in 1..Len(r.prefixed) |->
                            IF ~Skipped(r.named[i]) /\ PathSuffix(r.filename) \in RULE2_EXTENSIONS
                            THEN ApplyRule2ReplacePaths(r.app_name, r.prefixed[i],
                                                        PathStem(r.filename))
                            ELSE r.prefixed[i]],
                     !.pc = "out"])
    /\ UNCHANGED <<disk, svcActive, flips>>

\* unit files: at most MaxStructLines structural lines, then one payload line
InitPreprocess ==
    LET UnitFiles == {"main.container", "web.pod", "db.volume", "net.network", "k.kube"}
        kind(filename) ==
            IF PathSuffix(filename) \in DOMAIN RESOURCE_NAME_DIRECTIVES
            THEN RESOURCE_NAME_DIRECTIVES[PathSuffix(filename)]
            ELSE <<"Kube", "KubeName">>
        StructLines(filename) ==
            {"# c", "[" \o kind(filename)[1] \o "]", " [Unit]\r", "  " \o kind(filename)[2] \o "=x"}
        sources == {"a.volume", "a.pod", "b.network", "/h", "/a.volume", "init.d", "init.d/s",
                    "init.dx", "init.d//s", "/init.d", "init.d/a.volume", "config.d/",
                    "config.d/c", "d", "x.volumes", ".pod"}
        rests   == {"", ":", ":/d", ":/d:ro"}
        values  == {"n.network", "/n.network", "a.service", "x", "p.pod ", "c.container",
                    "k.kube", "v.volume"}
        PayloadLines ==
            {ws \o "Volume=" \o src \o rest : ws \in {"", "  "}, src \in sources, rest \in rests}
            \cup {ws \o d \o "=" \o v : ws \in {"", "\t"},
                                        d \in {"Network", "After", "Image", "Wants", "Pod "},
                                        v \in values}
            \cup {"", "# Network=n.network", "Image=i"}
            \cup {RESOURCE_NAME_DIRECTIVES[e][2] \o "=y" : e \in DOMAIN RESOURCE_NAME_DIRECTIVES}
    IN  /\ flips = 0
        /\ svcActive = FALSE
        /\ disk = EmptyDisk
        /\ \E filename \in UnitFiles, payload \in PayloadLines, n \in 0..MaxStructLines,
              app_name \in {"shop", "init"} :
           \E struct \in [1..n -> StructLines(filename)] :
               run = [p \in Procs |->
                        [pc |-> IF p = 1 THEN "raw" ELSE "idle",
                         app_name |-> app_name, filename |-> filename,
                         content |-> Join(Append(struct, payload), "\n"),
                         named |-> <<>>, prefixed |-> <<>>, out |-> <<>>]]

NextPreprocess == InjectNames(1) \/ PrefixResources(1) \/ ReplacePaths(1)

SpecPreprocess == InitPreprocess /\ [][NextPreprocess]_vars

\* the staged rules give what preprocess_quadlet_file returns
StagesAgree ==
    run[1].pc = "out" =>
        Join(run[1].out, "\n")
            = PreprocessQuadletFile(run[1].app_name, run[1].content, run[1].filename)

\* files whose identity name Rule 3 injects
NamedKinds == {".container", ".pod", ".volume", ".network"}

\* outp is inp, or inp with one line inserted
AtMostOneInserted(inp, outp) ==
    \/ outp = inp
    \/ /\ Len(outp) = Len(inp) + 1
       /\ \E k \in 0..Len(inp) :
             /\ SubSeq(outp, 1, k) = SubSeq(inp, 1, k)
             /\ SubSeq(outp, k + 2, Len(outp)) = SubSeq(inp, k + 1, Len(inp))

\* C13: for a .container, .pod, .volume or .network file, the output of name
\* injection is the input with at most one line inserted: every input line,
\* those before the first section header included, is in the output verbatim
\* and in order.
C13_Rule3Preserves ==
    \A p \in Procs :
        LET r == run[p]
        IN  r.pc \in {"named", "prefixed", "out"} /\ PathSuffix(r.filename) \in NamedKinds
            => AtMostOneInserted(Split(r.content, "\n"), r.named)

\* the header of the section Rule 3 looks for in the file, and its directive
KindHeader(filename) == "[" \o RESOURCE_NAME_DIRECTIVES[PathSuffix(filename)][1] \o "]"
KindDirective(filename) == RESOURCE_NAME_DIRECTIVES[PathSuffix(filename)][2] \o "="

\* index of the first header of the kind's section in lines, 0 if none
KindSection(filename, lines) ==
    LET hs == {i \in 1..Len(lines) : Strip(lines[i]) = KindHeader(filename)}
    IN  IF hs = {} THEN 0 ELSE CHOOSE i \in hs : \A j \in hs : i <= j

\* the lines of the section whose header is at index h: up to the next header
SectionLines(lines, h) ==
    LET nx == {i \in (h + 1)..Len(lines) :
                  StartsWith(Strip(lines[i]), "[") /\ EndsWith(Strip(lines[i]), "]")}
        e  == IF nx = {} THEN Len(lines) ELSE (CHOOSE i \in nx : \A j \in nx : i <= j) - 1
    IN  SubSeq(lines, h, e)

\* a non-comment, non-blank line of the section starts with the directive
Named(filename, lines, h) ==
    \E i \in 1..Len(SectionLines(lines, h)) :
        LET l == Strip(SectionLines(lines, h)[i])
        IN  l # "" /\ ~StartsWith(l, "#") /\ StartsWith(l, KindDirective(filename))

\* C14: when the kind's section exists and has no name directive, the output
\* of Rule 3 holds '<Kind>Name=<appName>--<stem>' once, right after the
\* section's header; when the directive is there already the content comes
\* back unchanged; a .kube file comes back unchanged.
C14_Rule3Injects ==
    \A p \in Procs :
        LET r    == run[p]
            inp  == Split(r.content, "\n")
            h    == KindSection(r.filename, inp)
            line == KindDirective(r.filename) \o r.app_name \o "--" \o PathStem(r.filename)
        IN  r.pc \in {"named", "prefixed", "out"} =>
              IF PathSuffix(r.filename) \notin NamedKinds THEN r.named = inp
              ELSE IF h = 0 THEN TRUE
              ELSE IF Named(r.filename, inp, h) THEN r.named = inp
              ELSE /\ Cardinality({i \in 1..Len(r.named) : r.named[i] = line}) = 1
                   /\ \E i \in 1..(Len(r.named) - 1) :
                         /\ Strip(r.named[i]) = KindHeader(r.filename)
                         /\ r.named[i + 1] = line
                         /\ \A j \in 1..(i - 1) : Strip(r.named[j]) # KindHeader(r.filename)

\* the text of line after its leading whitespace, and that whitespace
Body(line) == LStrip(line)
Indent(line) == SubSeq(line, 1, Len(line) - Len(LStrip(line)))

\* <<reference, remainder>> of a value matching
\* ^([^/][^:]*\.(volume|network|pod))(:.*)?$ , <<>> when it does not match
VolumeParts(value) ==
    LET cs  == {i \in 2..Len(value) : Ch(value, i) = ":"}
        c   == IF cs = {} THEN Len(value) + 1 ELSE CHOOSE i \in cs : \A j \in cs : i <= j
        ref == SubSeq(value, 1, c - 1)
    IN  IF /\ value # "" /\ Ch(value, 1) # "/"
           /\ \E suf \in {".volume", ".network", ".pod"} : Len(ref) > Len(suf) /\ EndsWith(ref, suf)
        THEN <<ref, SubSeq(value, c, Len(value))>>
        ELSE <<>>

\* C15: in .container, .pod and .kube files Rule 1 rewrites a line
\* 'Volume=<value>' exactly when the value matches
\* ^([^/][^:]*\.(volume|network|pod))(:.*)?$ : the reference gets the
\* '<appName>--' prefix and the remainder, a bare ':' included, is kept; a
\* line with any other value is unchanged.
C15_Rule1Volume ==
    \A p \in Procs :
        LET r == run[p]
        IN  r.pc \in {"prefixed", "out"} /\ PathSuffix(r.filename) \in {".container", ".pod", ".kube"}
            => \A i \in 1..Len(r.named) :
                  StartsWith(Body(r.named[i]), "Volume=") =>
                     LET parts == VolumeParts(SubSeq(Body(r.named[i]), 8, Len(Body(r.named[i]))))
                     IN  r.prefixed[i] =
                            IF parts = <<>> THEN r.named[i]
                            ELSE Indent(r.named[i]) \o "Volume=" \o r.app_name \o "--"
                                 \o parts[1] \o parts[2]

\* the directives of Rule 1 other than Volume
ReferenceDirectives ==
    {"Network", "Pod", "Wants", "Requires", "Requisite", "BindsTo", "PartOf", "Upholds",
     "Conflicts", "Before", "After"}

\* the text of a line body before and after its first "="
DirectiveOf(body) == SubSeq(body, 1, Find(body, "=") - 1)
ValueOf(body) == SubSeq(body, Find(body, "=") + 1, Len(body))

\* C16: in .container, .pod and .kube files Rule 1 rewrites a non-comment
\* line 'D=V' with D one of the eleven non-Volume directives to
\* 'D=<appName>--V', leading whitespace kept, exactly when V ends with
\* .network, .pod, .volume, .container, .kube or .service and does not start
\* with '/'; lines with another directive and comment lines are unchanged,
\* and so is every line of a .volume or .network file.
C16_Rule1References ==
    \A p \in Procs :
        LET r == run[p]
        IN  r.pc \in {"prefixed", "out"} =>
              \A i \in 1..Len(r.named) :
                 LET line == r.named[i]
                     d    == DirectiveOf(Body(line))
                     v    == ValueOf(Body(line))
                 IN  IF PathSuffix(r.filename) \notin {".container", ".pod", ".kube"}
                     THEN r.prefixed[i] = line
                     ELSE IF Find(Body(line), "=") = 0 \/ StartsWith(Body(line), "#")
                          THEN r.prefixed[i] = line
                     ELSE IF d \in ReferenceDirectives
                          THEN r.prefixed[i] =
                                 IF /\ \E e \in {".network", ".pod", ".volume", ".container",
                                                 ".kube", ".service"} : EndsWith(v, e)
                                    /\ ~StartsWith(v, "/")
                                 THEN Indent(line) \o d \o "=" \o r.app_name \o "--" \o v
                                 ELSE line
                     ELSE d # "Volume" => r.prefixed[i] = line

\* an indented After= line of a .container file was prefixed
C16_Witness ==
    /\ run[1].pc = "prefixed" /\ run[1].filename = "main.container"
    /\ \E i \in 1..Len(run[1].named) :
          /\ run[1].named[i] = "\tAfter=a.service"
          /\ run[1].prefixed[i] = "\tAfter=shop--a.service"

\* source with prefix and one optional slash after it taken off
Subpath(source, prefix) ==
    LET after == SubSeq(source, Len(prefix) + 1, Len(source))
    IN  IF StartsWith(after, "/") THEN SubSeq(after, 2, Len(after)) ELSE after

\* the redirected form of a relative source under init.d or config.d
Redirected(app_name, stem, source) ==
    LET kind == IF StartsWith(source, "init.d") THEN "init" ELSE "config"
        sub  == Subpath(source, kind \o ".d")
    IN  "/srv/" \o app_name \o "/" \o kind \o "/" \o stem
            \o (IF sub # "" THEN "/" \o sub ELSE "")

\* C17: in .container and .pod files Rule 2 replaces the source of a line
\* 'Volume=<source><rest>' that is relative, does not end with .volume and
\* starts with 'init.d' or 'config.d' by '<app-base>/<appName>/<init|config>/
\* <unitStem>', with '/<subpath>' only for a non-empty subpath, and keeps
\* <rest>; absolute and .volume sources are untouched, and in .kube, .volume
\* and .network files no line is changed.
C17_Rule2Redirects ==
    \A p \in Procs :
        LET r == run[p]
        IN  r.pc = "out" =>
              \A i \in 1..Len(r.prefixed) :
                 LET line   == r.prefixed[i]
                     value  == SubSeq(Body(line), 8, Len(Body(line)))
                     colon  == Find(value, ":")
                     source == IF colon = 0 THEN value ELSE SubSeq(value, 1, colon - 1)
                     rest   == IF colon = 0 THEN "" ELSE SubSeq(value, colon, Len(value))
                 IN  IF PathSuffix(r.filename) \notin {".container", ".pod"}
                     THEN r.out[i] = line
                     ELSE StartsWith(Body(line), "Volume=") =>
                            IF StartsWith(source, "/") \/ EndsWith(source, ".volume")
                            THEN r.out[i] = line
                            ELSE StartsWith(source, "init.d") \/ StartsWith(source, "config.d") =>
                                   r.out[i] = Indent(line) \o "Volume="
                                                \o Redirected(r.app_name, PathStem(r.filename), source)
                                                \o rest

\* init.d sources with and without subpath were redirected in a .container file
C17_Witness ==
    /\ run[1].pc = "out" /\ run[1].filename = "main.container"
    /\ \E i \in 1..Len(run[1].out) :
          /\ run[1].prefixed[i] = "  Volume=init.d//s:/d:ro"
          /\ run[1].out[i] = "  Volume=/srv/shop/init/main//s:/d:ro"

(***************************************************************************)
(* The deployment plan alone (specification SpecPlan): trees with three    *)
(* container units and one file in each of some subdirectories of init.d/  *)
(* and config.d/, in both input modes.                                     *)
(***************************************************************************)
InitPlan ==
    LET mounts == "[Container]\nVolume=init.d:/i\nVolume=config.d:/c\n"
        units == <<Q("main.container", mounts), Q("y.container", mounts),
                   Q("y.x.container", mounts)>>
        dirs  == <<"main", "y", "y.x">>
        files(ds) == SelectSeq([i \in 1..Len(dirs) |-> F(dirs[i], "f", dirs[i] \o "\n")],
                               LAMBDA e : e.container \in ds)
    IN  /\ flips = 0
        /\ svcActive = FALSE
        /\ disk = EmptyDisk
        /\ \E i \in SUBSET {"main", "y", "y.x"}, c \in SUBSET {"main", "y", "y.x"}, cnp \in BOOLEAN :
               run = [p \in Procs |->
                        IF p = 1
                        THEN NewInvocation("app", "installed", FALSE, cnp,
                                           [EmptyTree EXCEPT !.quadlets = units,
                                                             !.initDirs = i, !.init = files(i),
                                                             !.configDirs = c, !.config = files(c)],
                                           FALSE)
                        ELSE IdleRun]

NextPlan == Validate(1) \/ Process(1)

SpecPlan == InitPlan /\ [][NextPlan]_vars

\* C18: the plan of a structurally sound tree has as many destinations as
\* the tree has source files, and the file <rel> of init.d/X or config.d/X
\* goes to '<app-base>/<appName>/<init|config>/X/<rel>'.
C18_OneDestinationPerSource ==
    \A p \in Procs :
        LET r == run[p]
        IN  r.pc = "planned" /\ StructurallySound(r.tree) =>
              /\ Cardinality(Dests(r.plan))
                    = Len(DiscoveredQuadlets(r.tree)) + Len(r.tree.init) + Len(r.tree.config)
              /\ \A i \in 1..Len(r.tree.init) :
                    "/srv/" \o r.app_name \o "/init/" \o r.tree.init[i].container \o "/"
                        \o r.tree.init[i].path \in Dests(r.plan)
              /\ \A i \in 1..Len(r.tree.config) :
                    "/srv/" \o r.app_name \o "/config/" \o r.tree.config[i].container \o "/"
                        \o r.tree.config[i].path \in Dests(r.plan)

\* C19: a command that times out, is missing or exits non-zero ends the run
\* in failure, except a list-dependencies timeout, after which the run goes
\* on without dependencies to the restart of the main service; an is-active
\* query that fails is not taken for a service state.
C19_CommandFailuresEndRun ==
    \A p \in Procs :
        LET r == run[p]
        IN  \A i \in 1..Len(r.fails) :
               IF r.fails[i] = <<"list-dependencies", "timeout">>
               THEN r.deps = <<>> /\ (r.pc = "done" => Issued(r, "restart"))
               ELSE r.pc = "failed"

\* the invocation before this one wrote its files and then failed at the dry
\* run or at daemon-reload
FailedAfterWriting(r) ==
    ~r.prev.ok /\ r.prev.failedCmd \in {"dryrun", "daemon-reload"}

\* C20: when a run wrote its files and then failed at the dry run or at
\* daemon-reload, the next run with the same inputs and force=false writes
\* nothing and issues neither a dry run nor a daemon-reload; with
\* state=installed it ends with changed=false and no service-manager call.
C20_NoRollback ==
    \A p \in Procs :
        LET r == run[p]
        IN  r.runNo = 2 /\ r.delta = "same" /\ ~r.force /\ FailedAfterWriting(r) =>
              /\ \A i \in 1..Len(r.ops) :
                    /\ r.ops[i][1] \notin {"write", GENERATOR}
                    /\ ~IsCmd(r.ops[i], "daemon-reload")
              /\ r.state = "installed" /\ r.pc \in {"done", "failed"} =>
                    /\ r.pc = "done" /\ ~r.out_changed
                    /\ \A i \in 1..Len(r.ops) : r.ops[i][1] # "systemctl"

(***************************************************************************)
(* Ordering inside one invocation (specification Spec).                    *)
(***************************************************************************)
\* the positions in ops of the commands "systemctl <verb> ..."
Positions(r, verb) == {i \in 1..Len(r.ops) : IsCmd(r.ops[i], verb)}

\* the positions in ops of the generator's dry run
DryRuns(r) == {i \in 1..Len(r.ops) : r.ops[i][1] = GENERATOR}

\* C21: daemon-reload is issued at most once; when it is issued every file
\* of the plan has been written and the dry run has exited with 0 before it;
\* a successful run that wrote files has issued it; every start or restart
\* comes after it; and a run that wrote no file has issued neither the dry
\* run nor daemon-reload.
C21_ReloadOrdering ==
    \A p \in Procs :
        LET r       == run[p]
            reloads == Positions(r, "daemon-reload")
        IN  /\ Cardinality(reloads) <= 1
            /\ \A k \in reloads :
                  /\ Wrote(r)
                  /\ \A i \in 1..Len(r.plan) :
                        \E j \in 1..(k - 1) : r.ops[j] = <<"write", r.plan[i].dest>>
                  /\ r.dryrun = "ok"
                  /\ \E j \in DryRuns(r) : j < k
                  /\ \A j \in Positions(r, "start") \cup Positions(r, "restart") : k < j
            /\ (r.pc = "done" /\ Wrote(r) => reloads # {})
            /\ (~Wrote(r) => DryRuns(r) = {} /\ reloads = {})

(***************************************************************************)
(* Two invocations for the same application (specification SpecConcurrent):*)
(* the second is handed to the module at any moment of the first, or after *)
(* it has ended.  Nothing in the module coordinates them.                  *)
(***************************************************************************)
\* two renderings of the same source tree: both unit files differ
ConcurrentTrees ==
    [v \in {"a", "b"} |->
        [EmptyTree EXCEPT !.quadlets = <<Q("main.container", "[Container]\nImage=" \o v \o "\n"),
                                         Q("web.container", "[Container]\nImage=" \o v \o "\n")>>]]

\* both invocations ask for state installed: what follows daemon-reload for
\* the other states does not touch the files
InitConcurrent ==
    /\ flips = 0
    /\ svcActive \in BOOLEAN
    /\ disk \in {EmptyDisk, Deployed(EmptyDisk, ProcessFiles("app", ConcurrentTrees["a"], TRUE))}
    /\ \E force \in BOOLEAN :
           run = [p \in Procs |-> IF p = 1
                                  THEN NewInvocation("app", "installed", force, TRUE,
                                                     ConcurrentTrees["a"], svcActive)
                                  ELSE IdleRun]

\* the second invocation begins; delta keeps whether the first had ended
StartSecond ==
    /\ run[2].pc = "idle"
    /\ \E force \in BOOLEAN :
           Set(2, [NewInvocation("app", "installed", force, TRUE, ConcurrentTrees["b"], svcActive)
                      EXCEPT !.delta = IF run[1].pc \in {"done", "failed"}
                                       THEN "serial" ELSE "overlap"])
    /\ UNCHANGED <<disk, svcActive, flips>>

\* the steps an invocation with state installed can take
InstalledStep(p) ==
    \/ Validate(p)
    \/ Process(p)
    \/ CheckIdempotency(p)
    \/ NeedsServiceManagement(p)
    \/ DeployFile(p)
    \/ ValidateQuadletSyntax(p)
    \/ DaemonReload(p)
    \/ RestartCheck(p)
    \/ StartCheck(p)
    \/ ExitJson(p)

NextConcurrent == InstalledStep(1) \/ StartSecond \/ InstalledStep(2)

SpecConcurrent == InitConcurrent /\ [][NextConcurrent]_vars

\* the destinations where d holds the content of plan and other plans another
FromPlan(d, plan, other) ==
    {plan[i].dest : i \in {k \in 1..Len(plan) :
        /\ \E j \in 1..Len(other) :
              other[j].dest = plan[k].dest /\ other[j].content # plan[k].content
        /\ IsFile(d, plan[k].dest)
        /\ d[plan[k].dest].bytes = WriteText(plan[k].content)}}

\* some destination files are from one plan, some from the other
Mixture(d, plan1, plan2) == FromPlan(d, plan1, plan2) # {} /\ FromPlan(d, plan2, plan1) # {}

\* C22: when the two invocations are serialized, no daemon-reload is issued
\* while the other invocation has written only part of its files, and when
\* both have ended successfully the destination files are not a mixture of
\* the two plans.  (Both states are reachable when the invocations overlap:
\* C22_Witness.)
C22_SerializedRunsDoNotMix ==
    run[2].delta = "serial"
        => /\ run[1].partial = {} /\ run[2].partial = {}
           /\ (run[1].pc = "done" /\ run[2].pc = "done"
                  => ~Mixture(disk, run[1].plan, run[2].plan))

\* overlapping invocations: the second reloaded while the first had written
\* one of its two files, both ended successfully, and the unit directory
\* holds one file of each plan
C22_Witness ==
    /\ run[2].delta = "overlap"
    /\ run[1].pc = "done" /\ run[2].pc = "done"
    /\ run[2].partial = {1}
    /\ Mixture(disk, run[1].plan, run[2].plan)
    /\ Len(run[1].plan) = 2 /\ Len(run[2].plan) = 2

\* the directory that stands in the unit deployed at dest as the source of
\* the Volume line with the given mount point ("" when there is no such line)
MountedSource(plan, dest, mount) ==
    LET units == {k \in 1..Len(plan) : plan[k].dest = dest}
        lines == Split(plan[CHOOSE k \in units : TRUE].content, "\n")
        hits  == {i \in 1..Len(lines) : StartsWith(lines[i], "Volume=") /\ EndsWith(lines[i], mount)}
        line  == lines[CHOOSE i \in hits : TRUE]
    IN  IF units = {} \/ hits = {} THEN ""
        ELSE SubSeq(line, 8, Len(line) - Len(mount))

\* C23: in the plan of a validated tree, the directory Rule 2 puts into unit
\* X.container for 'Volume=init.d' (resp. 'Volume=config.d') is the directory
\* under which every file of init.d/X (resp. config.d/X) is deployed.
C23_Rule2AgreesWithAuxDest ==
    \A p \in Procs :
        LET r == run[p]
            agrees(files, mount) ==
                \A i \in 1..Len(files) :
                    LET dir == MountedSource(r.plan, QuadletDest(r.app_name,
                                                 files[i].container \o ".container"), mount)
                    IN  \E k \in 1..Len(r.plan) :
                            /\ r.plan[k].dest = dir \o "/" \o files[i].path
                            /\ r.plan[k].content = SourceText(files[i].content, r.cnp)
        IN  r.pc = "planned" /\ StructurallySound(r.tree)
                => agrees(r.tree.init, ":/i") /\ agrees(r.tree.config, ":/c")

\* the positions in ops of "systemctl <verb> <main service>"
MainCmds(r, verb) == {i \in 1..Len(r.ops) : r.ops[i] = <<"systemctl", verb, ServiceName(r.app_name)>>}

\* C24: a successful run with state started whose files changed has issued,
\* after its daemon-reload, exactly one of 'start main' and 'restart main',
\* whatever the is-active queries answered.
C24_StartOrRestart ==
    \A p \in Procs :
        LET r == run[p]
            cmds == MainCmds(r, "start") \cup MainCmds(r, "restart")
        IN  r.state = "started" /\ Wrote(r) /\ r.pc = "done"
                => /\ Cardinality(cmds) = 1
                   /\ \A i \in cmds : \E j \in Positions(r, "daemon-reload") : j < i

\* C25: a successful run returns changed=true exactly when it wrote files
\* or issued daemon-reload, start or restart.
C25_ChangedIsExact ==
    \A p \in Procs :
        LET r == run[p]
        IN  r.pc = "done"
                => (r.out_changed <=> \/ Wrote(r)
                                      \/ Issued(r, "daemon-reload")
                                      \/ Issued(r, "start")
                                      \/ Issued(r, "restart"))

\* a successful run that wrote nothing, only started the main service, and
\* returned changed=true
C25_Witness ==
    \E p \in Procs :
        /\ run[p].pc = "done" /\ run[p].state = "started"
        /\ ~Wrote(run[p]) /\ ~Issued(run[p], "daemon-reload")
        /\ MainCmds(run[p], "start") # {}
        /\ run[p].out_changed

\* every destination of the plan is a regular file with the planned content,
\* written by this run
PlanDeployed(r, d) ==
    \A i \in 1..Len(r.plan) :
        /\ IsFile(d, r.plan[i].dest)
        /\ d[r.plan[i].dest].bytes = r.plan[i].content
        /\ \E k \in 1..Len(r.ops) : r.ops[k] = <<"write", r.plan[i].dest>>

\* what is on the filesystem and is no destination of a plan stays as it is
OthersUntouched ==
    \A path \in DOMAIN disk :
        (\A p \in Procs : path \notin Dests(run[p].plan))
            => path \in DOMAIN disk' /\ disk'[path] = disk[path]

\* C26: after a successful run in which deployment was needed every
\* destination of the plan is a regular file holding the planned content,
\* each written in this run; and no step changes or removes a path that is
\* not a destination of the plan.
C26_AllWrittenOthersKept ==
    /\ [](\A p \in Procs : run[p].pc = "done" /\ run[p].needs_update
                              => PlanDeployed(run[p], disk))
    /\ [][OthersUntouched]_vars

\* a successful run over a unit directory that held the plan with one stale
\* destination, or nothing of the plan, next to the files of a removed unit
C26_Witness ==
    \E p \in Procs :
        /\ run[p].pc = "done" /\ run[p].needs_update /\ Len(run[p].plan) = 3
        /\ QuadletDest(run[p].app_name, "old.container") \in DOMAIN disk
        /\ AuxDest(run[p].app_name, "init", "old", "f") \in DOMAIN disk

\* the source is the auxiliary directory itself or a path below it
IsAuxSource(source) ==
    \/ source \in {"init.d", "config.d"}
    \/ StartsWith(source, "init.d/")
    \/ StartsWith(source, "config.d/")

IdentityLine(app_name, filename) ==
    KindDirective(filename) \o app_name \o "--" \o PathStem(filename)

\* C28: in .container and .pod files a line changed by Rule 1 is left as it
\* is by Rule 2, and in every unit file the identity line written by Rule 3
\* is changed by neither rule.
C28_RulesDoNotOverlap ==
    \A p \in Procs :
        LET r == run[p]
        IN  r.pc = "out" =>
              \A i \in 1..Len(r.named) :
                 /\ r.prefixed[i] # r.named[i] => r.out[i] = r.prefixed[i]
                 /\ (/\ PathSuffix(r.filename) \in NamedKinds
                     /\ r.named[i] = IdentityLine(r.app_name, r.filename))
                        => r.prefixed[i] = r.named[i] /\ r.out[i] = r.named[i]

\* a .container file in which Rule 3 wrote the identity line, Rule 1 prefixed
\* a reference that lies under init.d, and Rule 2 kept Rule 1's line
C28_Witness ==
    \E p \in Procs :
        LET r == run[p]
        IN  /\ r.pc = "out" /\ r.filename = "main.container" /\ r.app_name = "init"
            /\ Len(r.named) = Len(Split(r.content, "\n")) + 1
            /\ \E i \in 1..Len(r.named) : r.named[i] = "ContainerName=init--main"
            /\ \E i \in 1..Len(r.named) :
                  /\ r.named[i] = "Volume=init.d/a.volume:/d"
                  /\ r.prefixed[i] = "Volume=init--init.d/a.volume:/d"
                  /\ r.out[i] = r.prefixed[i]

====
